---- MODULE Spec2Model ----
(***************************************************************************)
(* Consolidation reconciler (pkg/controllers/controllers.go, package       *)
(* consolidation) together with the node termination controller, the       *)
(* cluster state mirror, the provisioner and the cloud provider it talks   *)
(* to.  The reconciler is one sequential process whose position is pc; the *)
(* other components act between its API calls.                             *)
(***************************************************************************)
EXTENDS Integers, Sequences, FiniteSets, TLC

\* ------------------------------------------------------------------ bounds
InitNodes == 2
MaxLaunched == 1
MaxPods == 1
MaxDeleting == 1

NodeIds == 1..(InitNodes + MaxLaunched)

\* ------------------------------------------------------------ settings
\* settings.featureGates.spotToSpotConsolidation as the chart sets it
spotToSpotConsolidation == FALSE

\* --------------------------------------------------------------- catalogue
CapacityTypeSpot == "spot"
CapacityTypeOnDemand == "on-demand"
CapacityTypes == {CapacityTypeSpot, CapacityTypeOnDemand}
InstanceTypes == {"small", "medium", "large"}

\* cloudprovider.Offering: the offerings the instance-type catalogue lists,
\* one zone; large has no spot offering.
Offerings ==
    { [it |-> "small",  ct |-> CapacityTypeOnDemand, price |-> 2],
      [it |-> "small",  ct |-> CapacityTypeSpot,     price |-> 1],
      [it |-> "medium", ct |-> CapacityTypeOnDemand, price |-> 4],
      [it |-> "medium", ct |-> CapacityTypeSpot,     price |-> 3],
      [it |-> "large",  ct |-> CapacityTypeOnDemand, price |-> 8] }

\* Provisioners the API lists, with Spec.Consolidation.Enabled.
Provisioners == [default |-> TRUE, batch |-> FALSE]
ProvisionerNames == DOMAIN Provisioners

\* -------------------------------------------------------------------- pods
\* A pod on a node is one of these kinds; at most one pod of a kind per node.
\* terminating: the pod's owner or a user has deleted it.
PodTable ==
    [ app         |-> [owner |-> "controller", terminal |-> FALSE, terminating |-> FALSE,
                      doNotEvict |-> FALSE, pdbBlocked |-> FALSE, tolerates |-> FALSE, critical |-> FALSE],
      dne         |-> [owner |-> "controller", terminal |-> FALSE, terminating |-> FALSE,
                      doNotEvict |-> TRUE, pdbBlocked |-> FALSE, tolerates |-> FALSE, critical |-> FALSE],
      bare        |-> [owner |-> "none", terminal |-> FALSE, terminating |-> FALSE,
                      doNotEvict |-> FALSE, pdbBlocked |-> FALSE, tolerates |-> FALSE, critical |-> FALSE],
      guard       |-> [owner |-> "controller", terminal |-> FALSE, terminating |-> FALSE,
                      doNotEvict |-> FALSE, pdbBlocked |-> TRUE, tolerates |-> FALSE, critical |-> FALSE],
      static      |-> [owner |-> "node", terminal |-> FALSE, terminating |-> FALSE,
                      doNotEvict |-> TRUE, pdbBlocked |-> FALSE, tolerates |-> FALSE, critical |-> FALSE],
      mirror      |-> [owner |-> "node", terminal |-> FALSE, terminating |-> FALSE,
                      doNotEvict |-> FALSE, pdbBlocked |-> FALSE, tolerates |-> FALSE, critical |-> FALSE],
      daemon      |-> [owner |-> "daemonset", terminal |-> FALSE, terminating |-> FALSE,
                      doNotEvict |-> FALSE, pdbBlocked |-> FALSE, tolerates |-> TRUE, critical |-> FALSE],
      tolerant    |-> [owner |-> "controller", terminal |-> FALSE, terminating |-> FALSE,
                      doNotEvict |-> FALSE, pdbBlocked |-> FALSE, tolerates |-> TRUE, critical |-> FALSE],
      tolerantDne |-> [owner |-> "controller", terminal |-> FALSE, terminating |-> FALSE,
                      doNotEvict |-> TRUE, pdbBlocked |-> FALSE, tolerates |-> TRUE, critical |-> FALSE],
      done        |-> [owner |-> "controller", terminal |-> TRUE, terminating |-> FALSE,
                      doNotEvict |-> TRUE, pdbBlocked |-> FALSE, tolerates |-> FALSE, critical |-> FALSE],
      critical    |-> [owner |-> "controller", terminal |-> FALSE, terminating |-> FALSE,
                      doNotEvict |-> FALSE, pdbBlocked |-> FALSE, tolerates |-> FALSE,
                      critical |-> TRUE],
      going       |-> [owner |-> "controller", terminal |-> FALSE, terminating |-> TRUE,
                      doNotEvict |-> TRUE, pdbBlocked |-> FALSE, tolerates |-> FALSE, critical |-> FALSE] ]
PodKinds == DOMAIN PodTable

IsTerminating(p) == PodTable[p].terminating
IsTerminal(p) == PodTable[p].terminal
IsOwnedByNode(p) == PodTable[p].owner = "node"
IsOwnedByDaemonSet(p) == PodTable[p].owner = "daemonset"
IsNotOwned(p) == PodTable[p].owner = "none"
HasDoNotEvict(p) == PodTable[p].doNotEvict
\* the pod tolerates the node.kubernetes.io/unschedulable:NoSchedule taint
Tolerates(p) == PodTable[p].tolerates
\* the pod's priority class is system-cluster-critical or system-node-critical
IsCritical(p) == PodTable[p].critical

\* nodeutils.GetNodePods: the pods of a node that would need rescheduling.
GetNodePods(ps) ==
    {p \in ps : ~(IsOwnedByNode(p) \/ IsOwnedByDaemonSet(p) \/ IsTerminal(p))}

\* PDBLimits.CanEvictPods: no pod is covered by a budget allowing no disruption.
CanEvictPods(ps) == \A p \in ps : ~PodTable[p].pdbBlocked

\* podsPreventEviction: TRUE when it returns an error.
podsPreventEviction_NoAnnotation(ps) ==
    \E p \in ps :
        /\ ~(IsTerminating(p) \/ IsTerminal(p) \/ IsOwnedByNode(p))
        /\ IsNotOwned(p)
podsPreventEviction(ps) ==
    \E p \in ps :
        /\ ~(IsTerminating(p) \/ IsTerminal(p) \/ IsOwnedByNode(p))
        /\ (HasDoNotEvict(p) \/ IsNotOwned(p))

\* canBeTerminated: TRUE when it returns nil. cand is a candidateNode.
canBeTerminated_NoPDB(cand) ==
    /\ ~cand.deleting
    /\ ~podsPreventEviction(cand.pods)
canBeTerminated(cand) ==
    /\ ~cand.deleting
    /\ CanEvictPods(cand.pods)
    /\ ~podsPreventEviction(cand.pods)

\* disruptionCost of a candidate's pods.
disruptionCost(ps) == Cardinality(ps)

\* ------------------------------------------------- scheduling and pricing
\* cloudprovider.GetOffering(instanceType, capacityType, zone): found or not.
HasOffering(it, ct) == \E o \in Offerings : o.it = it /\ o.ct = ct
OfferingPrice(it, ct) == (CHOOSE o \in Offerings : o.it = it /\ o.ct = ct).price

\* The price at which an instance type may launch under the capacity types a
\* node template requires: the dearest of its offerings the template admits.
CanLaunch(it, cts) == \E o \in Offerings : o.it = it /\ o.ct \in cts
LaunchPrice(it, cts) ==
    LET ps == {o.price : o \in {x \in Offerings : x.it = it /\ x.ct \in cts}}
    IN  CHOOSE m \in ps : \A q \in ps : q <= m

\* filterByPrice(options, requirements, price): the options that launch
\* strictly below price.
filterByPrice(options, cts, price) ==
    {it \in options : CanLaunch(it, cts) /\ LaunchPrice(it, cts) < price}

NoTemplate == [options |-> {}, capacityTypes |-> {}]
\* the node templates of the provisioners: every instance type, on demand
\* only or on demand and spot
ProvisionerTemplates ==
    {[options |-> InstanceTypes, capacityTypes |-> c] :
        c \in {{CapacityTypeOnDemand}, CapacityTypes}}
Templates ==
    {[options |-> o, capacityTypes |-> c] :
        o \in SUBSET InstanceTypes \ {{}}, c \in SUBSET CapacityTypes \ {{}}}

\* scheduler.Solve in simulation mode over the candidate's nOwn pods and the
\* nOther pods of the nodes being deleted, with the surviving nodes: the
\* number of new nodes it needs, the template of the first, how many pods it
\* put on existing nodes (schedulable, the sum over inflightNodes of their
\* Pods) and how many of those are the candidate's (own). A pod it can place
\* nowhere is left out without an error.
MaxNewNodes == 2
Placements(nOwn, nOther, haveNodes) ==
    {x \in (0..nOwn) \X (0..nOther) : haveNodes \/ (x[1] = 0 /\ x[2] = 0)}
Solve(nOwn, nOther, haveNodes, templates) ==
    {[err |-> TRUE, newNodes |-> 0, template |-> NoTemplate, schedulable |-> 0,
      own |-> 0]}
    \cup
    {[err |-> FALSE, newNodes |-> 0, template |-> NoTemplate,
      schedulable |-> x[1] + x[2], own |-> x[1]] :
        x \in Placements(nOwn, nOther, haveNodes)}
    \cup
    {[err |-> FALSE, newNodes |-> k, template |-> t,
      schedulable |-> x[1] + x[2], own |-> x[1]] :
        k \in 1..MaxNewNodes, t \in templates,
        x \in {y \in Placements(nOwn, nOther, haveNodes) : y[1] + y[2] < nOwn + nOther}}

\* consolidationAction
Act(result, oldNodes, replacementNode, err) ==
    [result |-> result, oldNodes |-> oldNodes,
     replacementNode |-> replacementNode, err |-> err]
NoAction == Act("NoAction", <<>>, NoTemplate, FALSE)

\* line 1472: the instance type options left to the replacement
priceFilteredOptions_Unfiltered(template, price) == template.options
priceFilteredOptions(template, price) ==
    filterByPrice(template.options, template.capacityTypes, price)

\* lines 1481-1482: existing node is spot and the replacement may be spot
spotToSpot_Allowed(cand, template) == FALSE
spotToSpot(cand, template) ==
    /\ cand.capacityType = CapacityTypeSpot
    /\ CapacityTypeSpot \in template.capacityTypes

\* nodeConsolidationOptionReplaceOrDelete, given whether the cluster state
\* holds the candidate as marked for deletion and the scheduler's answer.
nodeConsolidationOptionReplaceOrDelete(cand, candidateNodeIsDeleting, sim) ==
    IF candidateNodeIsDeleting THEN NoAction
    ELSE IF sim.err THEN Act("Unknown", <<>>, NoTemplate, TRUE)
    ELSE IF sim.newNodes = 0 /\ Cardinality(cand.pods) = sim.schedulable
        THEN Act("Delete", <<cand.name>>, NoTemplate, FALSE)
    ELSE IF sim.newNodes # 1 THEN Act("NotPossible", <<>>, NoTemplate, FALSE)
    ELSE IF ~HasOffering(cand.instanceType, cand.capacityType)
        THEN Act("Unknown", <<>>, NoTemplate, TRUE)
    ELSE LET price == OfferingPrice(cand.instanceType, cand.capacityType)
             options == priceFilteredOptions(sim.template, price)
         IN  IF options = {} THEN Act("NotPossible", <<>>, NoTemplate, FALSE)
             ELSE IF spotToSpot(cand, sim.template)
                 THEN Act("NotPossible", <<>>, NoTemplate, FALSE)
             ELSE Act("Replace", <<cand.name>>,
                      [options |-> options,
                       capacityTypes |-> sim.template.capacityTypes], FALSE)

\* ------------------------------------------------------------------- state
VARIABLES
    phase,              \* node object: "absent" (not created), "present", "gone"
    meta,               \* node labels and annotations, creation timestamp
    unschedulable,      \* node.Spec.Unschedulable
    deletionTimestamp,  \* node.DeletionTimestamp is set
    initialized,        \* label karpenter.sh/initialized
    pods,               \* pods bound to the node
    MarkedForDeletion,  \* state.Node.MarkedForDeletion
    recentScale,        \* a node was created or deleted within the last 5 minutes
    instance,           \* the node's cloud instance: "running", "terminated" (by
                        \* cloudProvider.Delete) or "gone" (taken away by the cloud)
    pc,                 \* where the reconciler is
    candidates,         \* ProcessCluster: candidates, sorted
    idx,                \* ProcessCluster: loop index
    action,             \* performConsolidation: action
    nodeNames,          \* launchReplacementNode: nodeNames
    waitIdx,            \* performConsolidation: index of the node waited on
    lastConsolidationState, \* Reconciler.lastConsolidationState, as it compares to
                        \* the cluster's consolidation state now
    clusterState,       \* Reconcile: clusterState, likewise
    deletionWait,       \* per node: "requested" once performConsolidation asked
                        \* for its deletion, "abandoned" once waitForDeletion
                        \* ran out of attempts on it (the error line 1288 logs)
    quiet,              \* no pod is pending and every workload reports ready
    eviction,           \* per node and pod: "queued" in the eviction queue,
                        \* "requeued" after a refused attempt, "evicting" once
                        \* the eviction API accepted it
    terminationGracePeriod, \* spec.terminationGracePeriod is set on the node's claim
    drainClock,         \* per node with a terminationGracePeriod: "none",
                        \* "running" since the drain began, "elapsed" once
                        \* drainStart + terminationGracePeriod passed
    cmData,             \* ConfigMap karpenter-global-settings: its Data
    cmPending,          \* the watcher has yet to hand the ConfigMap to its handlers
    batchMaxDuration,   \* config.batchMaxDuration, in milliseconds
    batchIdleDuration,  \* config.batchIdleDuration, in milliseconds
    parsed,             \* the last call of parsePositiveDuration and its result
    ltCache,            \* LaunchTemplateProvider.cache: the names it holds
    ltCloud,            \* the launch templates that exist in EC2
    ltExpired,          \* the keys of the cache whose entry is past its expiration
    ltEvicted,          \* the keys the janitor has evicted and has yet to call the
                        \* eviction hook for
    ltSince,            \* per evicted key, what was done to the key since:
                        \* "none", "cached" or "invalidated"
    createPc,           \* InstanceProvider.Create: "idle", "fleet" (before
                        \* CreateFleet), "retry" (before the second launchInstance)
    createRequest,      \* the launch templates the node request resolves to
    launches,           \* calls of launchInstance made for the request
    createResult,       \* what Create returned: "none", "node" or an error code
    unavailableOfferings, \* the offerings cached as unavailable
    instanceState,      \* an instance in EC2: "running", "terminated", "absent"
    terminateCalls,     \* calls of Terminate made for that instance
    terminated,         \* the last call of Terminate: the errors the EC2 API
                        \* answered with and what Terminate returned
    configHash,         \* per ChangeWatcher object: hash of the last ConfigMap seen
    cached,             \* per ChangeWatcher object: the ConfigMap kept for hydration
    watchers,           \* per ChangeWatcher object: the handlers added, in order
    invoked,            \* the handler calls the last watcher operation made
    machineProvisioner, \* the Provisioner the machine belongs to
    nodeTemplate,       \* the AWSNodeTemplate the Provisioner refers to: "missing",
                        \* "launchTemplate" (spec.launchTemplate is set) or "amiFamily"
    instanceTypes,      \* the names of the instance types GetInstanceTypes lists
    amis,               \* the AMIs the AMI provider resolves for the node template
    drifted             \* the last answer of IsMachineDrifted

nodeVars == <<phase, meta, unschedulable, deletionTimestamp, initialized, pods>>
mirrorVars == <<MarkedForDeletion, recentScale>>
cloudVars == <<instance>>
ctrlVars == <<pc, candidates, idx, action, nodeNames, waitIdx>>
heldVars == <<lastConsolidationState, clusterState>>
recVars == <<ctrlVars, heldVars>>
auxVars == <<deletionWait, quiet, eviction>>
graceVars == <<terminationGracePeriod, drainClock>>
configVars == <<cmData, cmPending, batchMaxDuration, batchIdleDuration, parsed>>
ltHookVars == <<ltExpired, ltEvicted, ltSince>>
providerVars == <<ltCache, ltCloud, ltHookVars, createPc, createRequest, launches, createResult,
                  unavailableOfferings,
                  instanceState, terminateCalls, terminated>>
watcherVars == <<configHash, cached, watchers, invoked>>
driftVars == <<machineProvisioner, nodeTemplate, instanceTypes, amis, drifted>>
sideVars == <<configVars, providerVars, watcherVars, driftVars>>
mainVars == <<nodeVars, mirrorVars, cloudVars, recVars, auxVars, graceVars>>
vars == <<mainVars, sideVars>>

NoEviction == [p \in PodKinds |-> "none"]

\* cluster.ClusterConsolidationState() is the time of the last change that
\* bears on consolidation. The reconciler only compares the values it holds
\* with the one the cluster returns now: a held value is that one, or an
\* older one.
ClusterConsolidationState == "current"
Stale == "stale"

Meta(provisioner, instanceType, capacityType, zone, doNotConsolidate, created) ==
    [provisioner |-> provisioner, instanceType |-> instanceType,
     capacityType |-> capacityType, zone |-> zone,
     doNotConsolidate |-> doNotConsolidate, created |-> created]
NoMeta == Meta("", "", "", "", FALSE, 0)

\* Nodes present at start: labelled as the provisioner labels them, or owned
\* by a provisioner without consolidation. The first node is any of these and
\* runs any of InitPods; the others are on-demand nodes running one pod.
OnDemandMeta == Meta("default", "large", CapacityTypeOnDemand, "zone-a", FALSE, 1)
InitMetas ==
    {Meta("default", "medium", CapacityTypeSpot, "zone-a", FALSE, 1),
     OnDemandMeta,
     Meta("batch", "medium", CapacityTypeOnDemand, "zone-a", FALSE, 1)}
InitPodKinds == {"app", "dne"}
InitPods == {ps \in SUBSET InitPodKinds : Cardinality(ps) <= MaxPods}

\* The first node as the decision procedure may meet it: any instance type
\* under any capacity type, the catalogue offering it or not, and any pods.
DecisionMetas ==
    {Meta("default", it, ct, "zone-a", FALSE, 1) :
        it \in InstanceTypes, ct \in CapacityTypes}
DecisionPods == {ps \in SUBSET PodKinds : Cardinality(ps) <= MaxPods}

\* ------------------------------------------------------------- settings
\* A ConfigMap value is a string, here the sequence of its characters.
Chars(str) ==
    CASE str = "10s" -> <<"1", "0", "s">>
      [] str = "1s" -> <<"1", "s">>
Digits == <<"0", "1", "2", "3", "4", "5", "6", "7", "8", "9">>
IsDigit(c) == \E i \in 1..10 : Digits[i] = c
DigitValue(c) == (CHOOSE i \in 1..10 : Digits[i] = c) - 1

\* the length of the longest prefix of s whose characters are digits (digits
\* = TRUE) or are none (digits = FALSE)
RECURSIVE Run(_, _)
Run(s, digits) ==
    IF s = <<>> \/ IsDigit(Head(s)) # digits THEN 0 ELSE 1 + Run(Tail(s), digits)
RECURSIVE Number(_)
Number(s) == IF s = <<>> THEN 0 ELSE 10 * Number(SubSeq(s, 1, Len(s) - 1)) + DigitValue(s[Len(s)])

\* time.ParseDuration's units, in milliseconds
UnitMs(u) ==
    CASE u = <<"m", "s">> -> 1
      [] u = <<"s">> -> 1000
      [] u = <<"m">> -> 60000
      [] u = <<"h">> -> 3600000
      [] OTHER -> 0

\* time.ParseDuration on an unsigned, non-empty string: a sequence of decimal
\* numbers, each followed by a unit
RECURSIVE ParseUnsigned(_)
ParseUnsigned(s) ==
    IF s = <<>> THEN [err |-> FALSE, d |-> 0]
    ELSE LET nd == Run(s, TRUE)
             rest == SubSeq(s, nd + 1, Len(s))
             nu == Run(rest, FALSE)
             unit == UnitMs(SubSeq(rest, 1, nu))
             more == ParseUnsigned(SubSeq(rest, nu + 1, Len(rest)))
         IN  IF nd = 0 \/ nu = 0 \/ unit = 0 \/ more.err
             THEN [err |-> TRUE, d |-> 0]
             ELSE [err |-> FALSE, d |-> Number(SubSeq(s, 1, nd)) * unit + more.d]

\* time.ParseDuration: an optional sign, then "0" or numbers with units; the
\* duration is 0 when err
ParseDuration(s) ==
    LET neg == s # <<>> /\ Head(s) = "-"
        body == IF s # <<>> /\ Head(s) \in {"-", "+"} THEN Tail(s) ELSE s
        r == ParseUnsigned(body)
    IN  IF body = <<"0">> THEN [err |-> FALSE, d |-> 0]
        ELSE IF body = <<>> \/ r.err THEN [err |-> TRUE, d |-> 0]
        ELSE [err |-> FALSE, d |-> IF neg THEN 0 - r.d ELSE r.d]

paramBatchMaxDuration == "batchMaxDuration"
paramBatchIdleDuration == "batchIdleDuration"
defaultConfigMapData ==
    [k \in {paramBatchMaxDuration, paramBatchIdleDuration} |->
        IF k = paramBatchMaxDuration THEN Chars("10s") ELSE Chars("1s")]

\* lo.Assign(maps...): the maps merged from left to right, a later map's
\* value replacing an earlier one's
Assign(m1, m2) ==
    [k \in DOMAIN m1 \cup DOMAIN m2 |-> IF k \in DOMAIN m2 THEN m2[k] ELSE m1[k]]

\* config.parsePositiveDuration
parsePositiveDuration_AnyDuration(configKey, configValue, defaultValue) ==
    ParseDuration(configValue).d
parsePositiveDuration(configKey, configValue, defaultValue) ==
    LET r == ParseDuration(configValue)
        duration == IF r.err THEN r.d ELSE IF r.d < 0 THEN 0 ELSE r.d
    IN  IF duration = 0 THEN ParseDuration(defaultValue).d ELSE duration

\* NewConfig: the zero config, its handler registered with the watcher,
\* which has the ConfigMap as created, without data, to hand over
InitConfig ==
    /\ cmData = <<>>
    /\ cmPending = TRUE
    /\ batchMaxDuration = 0
    /\ batchIdleDuration = 0
    /\ parsed = [key |-> "", value |-> <<>>, result |-> 0]

\* the values a user writes into the ConfigMap
ConfigValues ==
    {<<"2", "s">>, <<"1", "5", "s">>, <<"1", "m", "5", "s">>,
     <<"-", "2", "s">>, <<"1", "5">>, <<"0", "s">>, <<"0">>, <<>>}
\* the ConfigMaps a user writes: any of the two parameters, and a key the
\* config does not know
ConfigMaps ==
    UNION {[keys -> ConfigValues] : keys \in SUBSET {paramBatchMaxDuration, paramBatchIdleDuration}}
    \cup {[k \in {paramBatchMaxDuration, "logLevel"} |-> <<"2", "s">>]}

\* a user updates the ConfigMap
UpdateConfigMap(data) ==
    /\ cmData' = data
    /\ cmPending' = TRUE
    /\ UNCHANGED <<batchMaxDuration, batchIdleDuration, parsed>>
    /\ UNCHANGED <<mainVars, providerVars, watcherVars, driftVars>>

\* config.changeHandler, called by the watcher with the ConfigMap
changeHandler ==
    /\ cmPending
    /\ LET data == Assign(cmData, defaultConfigMapData)
       IN  /\ batchMaxDuration' =
                  IF paramBatchMaxDuration \in DOMAIN data
                  THEN parsePositiveDuration(paramBatchMaxDuration,
                                             data[paramBatchMaxDuration],
                                             defaultConfigMapData[paramBatchMaxDuration])
                  ELSE batchMaxDuration
           /\ batchIdleDuration' =
                  IF paramBatchIdleDuration \in DOMAIN data
                  THEN parsePositiveDuration(paramBatchIdleDuration,
                                             data[paramBatchIdleDuration],
                                             defaultConfigMapData[paramBatchIdleDuration])
                  ELSE batchIdleDuration
    /\ cmPending' = FALSE
    /\ UNCHANGED <<cmData, parsed>>
    /\ UNCHANGED <<mainVars, providerVars, watcherVars, driftVars>>

\* parsePositiveDuration called on a value of a key
ParsePositiveDuration(k, v) ==
    /\ parsed' = [key |-> k, value |-> v,
                  result |-> parsePositiveDuration(k, v, defaultConfigMapData[k])]
    /\ UNCHANGED <<cmData, cmPending, batchMaxDuration, batchIdleDuration>>
    /\ UNCHANGED <<mainVars, providerVars, watcherVars, driftVars>>

\* ---------------------------------------------------- ConfigMap watcher
MaxHandlers == 2
\* the handlers a caller registers
Handlers == {"changeHandler", "notify"}
\* NewChangeWatcher builds the object cw, registers cw.configMapChanged with
\* the informer, and returns a pointer to another, zero-valued object
WatcherObjects == {"cw", "returned"}
NewChangeWatcher == "returned"

\* a *v1.ConfigMap: nil, or a ConfigMap with its Data
NilConfigMap == [nil |-> TRUE, data |-> <<>>]
ConfigMap(data) == [nil |-> FALSE, data |-> data]

\* the keys and values of the ConfigMaps the informer delivers, the keys in
\* the order of sort.Strings, each with its characters
WatchedKeys == <<"a", "ab">>
KeyChars == [a |-> <<"a">>, ab |-> <<"a", "b">>]
WatchedValues == {<<"c">>, <<"b", "c">>}
WatchedData ==
    UNION {[keys -> WatchedValues] : keys \in SUBSET {WatchedKeys[i] : i \in DOMAIN WatchedKeys}}

\* hashCM: the FNV-64 sum of the keys, sorted, each followed by its value,
\* written one after the other with nothing in between; the sum is taken to
\* tell apart any two byte streams, and the zero value of configHash is the
\* sum of none
RECURSIVE Written(_, _)
Written(keys, data) ==
    IF keys = <<>> THEN <<>>
    ELSE KeyChars[Head(keys)] \o data[Head(keys)] \o Written(Tail(keys), data)
ZeroHash == <<>>
hashCM(data) ==
    <<"fnv64">> \o Written(SelectSeq(WatchedKeys, LAMBDA k : k \in DOMAIN data), data)

InitWatcher ==
    /\ configHash = [w \in WatcherObjects |-> ZeroHash]
    /\ cached = [w \in WatcherObjects |->
                    IF w = "cw" THEN ConfigMap(<<>>) ELSE NilConfigMap]
    /\ watchers = [w \in WatcherObjects |-> <<>>]
    /\ invoked = <<>>

Call(handler, cm) == [handler |-> handler, cm |-> cm]

\* ChangeWatcher.OnChange, called on the watcher NewChangeWatcher returned:
\* add the handler and call it with the cached ConfigMap
OnChange(handler) ==
    LET cw == NewChangeWatcher
    IN  /\ Len(watchers[cw]) < MaxHandlers
        /\ watchers' = [watchers EXCEPT ![cw] = Append(@, handler)]
        /\ invoked' = <<Call(handler, cached[cw])>>
        /\ UNCHANGED <<configHash, cached>>
        /\ UNCHANGED <<mainVars, configVars, providerVars, driftVars>>

\* ChangeWatcher.configMapChanged, which the informer calls on the object
\* cw with the ConfigMap it has observed
configMapChanged(data) ==
    LET cw == "cw"
        hash == hashCM(data)
    IN  /\ IF hash = configHash[cw]
           THEN /\ invoked' = <<>>
                /\ UNCHANGED <<configHash, cached>>
           ELSE /\ cached' = [cached EXCEPT ![cw] = ConfigMap(data)]
                /\ configHash' = [configHash EXCEPT ![cw] = hash]
                /\ invoked' = [i \in DOMAIN watchers[cw] |->
                                   Call(watchers[cw][i], ConfigMap(data))]
        /\ UNCHANGED watchers
        /\ UNCHANGED <<mainVars, configVars, providerVars, driftVars>>

\* ------------------------------------------------------- machine drift
\* the machine: its instance type label and the image of its instance
MachineInstanceType == "m5.large"
MachineImageID == "ami-abc"
\* the AMIs in EC2 and the architecture of each
AMIs == {"ami-abc", "ami-xyz", "ami-arm"}
ArchitectureOf(ami) == IF ami = "ami-arm" THEN "arm64" ELSE "amd64"
InstanceTypeNames == {"m5.large", "c6g.large"}
InstanceTypeArchitecture(name) == IF name = "m5.large" THEN "amd64" ELSE "arm64"

\* the fields of a Provisioner: weight, limits and consolidation say how the
\* pool behaves, providerRef names the node template
Weights == {0, 50}
Limits == {"none", "cpu=100"}
NodeTemplates == {"missing", "launchTemplate", "amiFamily"}

InitDrift ==
    /\ machineProvisioner = [exists |-> TRUE, providerRef |-> TRUE,
                      weight |-> 0, limits |-> "none", consolidation |-> FALSE]
    /\ nodeTemplate = "amiFamily"
    /\ instanceTypes = InstanceTypeNames
    /\ amis = {MachineImageID}
    /\ drifted = [called |-> FALSE, drifted |-> FALSE, err |-> FALSE]

\* amifamily.MapInstanceTypes for one instance type: the AMIs the instance
\* type can run
MapInstanceTypes(resolved, instanceType) ==
    {ami \in resolved : ArchitectureOf(ami) = InstanceTypeArchitecture(instanceType)}

Answer(isDrifted, err) == [called |-> TRUE, drifted |-> isDrifted, err |-> err]

\* CloudProvider.isAMIDrifted
isAMIDrifted(listed, template, resolved, getErr) ==
    IF MachineInstanceType \notin listed THEN Answer(FALSE, TRUE)
    ELSE IF template = "launchTemplate" THEN Answer(FALSE, FALSE)
    ELSE IF MapInstanceTypes(resolved, MachineInstanceType) = {} THEN Answer(FALSE, TRUE)
    ELSE IF getErr THEN Answer(FALSE, TRUE)
    ELSE Answer(MachineImageID \notin MapInstanceTypes(resolved, MachineInstanceType), FALSE)

\* CloudProvider.IsMachineDrifted: a Provisioner or a node template that is
\* not found is no error and no drift
IsMachineDrifted_ComparesWeight(p, listed, template, resolved, getErr) ==
    Answer(p.weight # 0, FALSE)
IsMachineDrifted(p, listed, template, resolved, getErr) ==
    IF ~p.exists THEN Answer(FALSE, FALSE)
    ELSE IF ~p.providerRef THEN Answer(FALSE, FALSE)
    ELSE IF template = "missing" THEN Answer(FALSE, FALSE)
    ELSE isAMIDrifted(listed, template, resolved, getErr)

\* the drift check of the machine; getErr: the look-up of the instance fails
CheckDrift(getErr) ==
    /\ drifted' = IsMachineDrifted(machineProvisioner, instanceTypes, nodeTemplate, amis, getErr)
    /\ UNCHANGED <<machineProvisioner, nodeTemplate, instanceTypes, amis>>
    /\ UNCHANGED <<mainVars, configVars, providerVars, watcherVars>>

\* a user changes a behavioral field of the Provisioner
UpdateBehavior(weight, limits, consolidation) ==
    /\ machineProvisioner.exists
    /\ machineProvisioner' = [machineProvisioner EXCEPT !.weight = weight, !.limits = limits,
                                          !.consolidation = consolidation]
    /\ UNCHANGED <<nodeTemplate, instanceTypes, amis, drifted>>
    /\ UNCHANGED <<mainVars, configVars, providerVars, watcherVars>>

\* a user deletes or recreates the Provisioner, or sets or removes its
\* providerRef
UpdateProvisioner(exists, providerRef) ==
    /\ machineProvisioner' = [machineProvisioner EXCEPT !.exists = exists, !.providerRef = providerRef]
    /\ UNCHANGED <<nodeTemplate, instanceTypes, amis, drifted>>
    /\ UNCHANGED <<mainVars, configVars, providerVars, watcherVars>>

\* a user changes or deletes the node template
UpdateNodeTemplate(template) ==
    /\ nodeTemplate' = template
    /\ UNCHANGED <<machineProvisioner, instanceTypes, amis, drifted>>
    /\ UNCHANGED <<mainVars, configVars, providerVars, watcherVars>>

\* the instance types or the AMIs that are resolved change
Resolve(listed, resolved) ==
    /\ instanceTypes' = listed
    /\ amis' = resolved
    /\ UNCHANGED <<machineProvisioner, nodeTemplate, drifted>>
    /\ UNCHANGED <<mainVars, configVars, providerVars, watcherVars>>

\* ------------------------------------------------------ instance provider
MaxTerminateCalls == 3
LaunchTemplateNames == {"lt-amd64", "lt-arm64"}
\* the launch templates a node request resolves to
NodeRequests == SUBSET LaunchTemplateNames \ {{}}

\* the keys of the LaunchTemplateProvider's cache: the names of the launch
\* templates, and the key of the Kubernetes version
kubernetesVersionCacheKey == "kubernetesVersion"
CacheKeys == LaunchTemplateNames \cup {kubernetesVersionCacheKey}

\* error codes of the EC2 API; NoError is a nil error
NoError == ""
launchTemplateNotFoundCode == "InvalidLaunchTemplateName.NotFoundException"
InstanceNotFoundCode == "InvalidInstanceID.NotFound"
RequestLimitExceeded == "RequestLimitExceeded"
\* InstanceTerminatedError, which getInstance returns
InstanceTerminatedError == "InstanceTerminatedError"
notFoundErrorCodes == {InstanceNotFoundCode, launchTemplateNotFoundCode}

isNotFound_Never(err) == FALSE
isNotFound(err) == err \in notFoundErrorCodes
isInstanceTerminated(err) == err = InstanceTerminatedError
isLaunchTemplateNotFound(err) == err = launchTemplateNotFoundCode

\* NewLaunchTemplateProvider and NewInstanceProvider in a cluster without
\* launch templates, and one instance launched earlier
InitProvider ==
    /\ ltCache = {}
    /\ ltCloud = {}
    /\ ltExpired = {}
    /\ ltEvicted = {}
    /\ ltSince = [key \in CacheKeys |-> "none"]
    /\ createPc = "idle"
    /\ createRequest = {}
    /\ launches = 0
    /\ createResult = "none"
    /\ unavailableOfferings = {}
    /\ instanceState = "running"
    /\ terminateCalls = 0
    /\ terminated = [terminateErr |-> NoError, describeErr |-> NoError, result |-> "none"]

\* cache.Get finds the keys whose entry is not past its expiration
Unexpired == ltCache \ ltExpired
\* what is done to a key with an eviction to be handled is remembered
Since(keys, what) ==
    [key \in CacheKeys |-> IF key \in keys \cap ltEvicted THEN what ELSE ltSince[key]]

\* LaunchTemplateProvider.Get for the request: the Kubernetes version is
\* cached if it is not; a cached template is used as it is and cached anew,
\* another one is looked up in EC2 and created there if it is missing, and
\* cached
getLaunchTemplates(req) ==
    [cache |-> ltCache \cup req \cup {kubernetesVersionCacheKey},
     expired |-> ltExpired \ (req \cup {kubernetesVersionCacheKey}),
     cloud |-> ltCloud \cup (req \ Unexpired),
     since |-> Since(req \cup ({kubernetesVersionCacheKey} \ Unexpired), "cached")]

\* the first half of launchInstance, up to the CreateFleet call
getLaunchTemplateConfigs(req, getErr) ==
    IF getErr # NoError
    THEN /\ createPc' = "idle"
         /\ createResult' = getErr
         /\ UNCHANGED <<ltCache, ltCloud, ltExpired, ltSince>>
    ELSE /\ createPc' = "fleet"
         /\ createResult' = "none"
         /\ ltCache' = getLaunchTemplates(req).cache
         /\ ltExpired' = getLaunchTemplates(req).expired
         /\ ltCloud' = getLaunchTemplates(req).cloud
         /\ ltSince' = getLaunchTemplates(req).since

\* InstanceProvider.Create up to the CreateFleet call of its first launchInstance
Create(req, getErr) ==
    /\ createPc = "idle"
    /\ createRequest' = req
    /\ launches' = 1
    /\ getLaunchTemplateConfigs(req, getErr)
    /\ UNCHANGED ltEvicted
    /\ UNCHANGED <<instanceState, terminateCalls, terminated, unavailableOfferings>>
    /\ UNCHANGED <<mainVars, configVars, watcherVars, driftVars>>

\* LaunchTemplateProvider.Invalidate of every launch template of the request:
\* the keys are deleted from the cache while the eviction hook is taken off
Invalidate(cache, names) == cache \ names
\* the entries the janitor evicts if it runs now: the ones past their
\* expiration, once it is through with the hook calls of its last run
janitorEvicts == IF ltEvicted = {} THEN ltExpired ELSE {}

\* Create retries launchInstance once if the launch template is not found
retryLaunch_Always(err, made) == isLaunchTemplateNotFound(err)
retryLaunch(err, made) == isLaunchTemplateNotFound(err) /\ made = 1

\* the offerings of a request, an instance type in a zone each
FleetOfferings == {"m5.large/zone-a", "c5.large/zone-b"}
unfulfillableCapacityErrorCodes ==
    {"InsufficientInstanceCapacity", "MaxSpotInstanceCountExceeded", "VcpuLimitExceeded",
     "UnfulfillableCapacity", "Unsupported"}
\* the error codes of the CreateFleetErrors in the model: the ones above, and
\* one that does not speak of capacity
FleetErrorCodes == unfulfillableCapacityErrorCodes \cup {"InvalidFleetConfiguration"}
isUnfulfillableCapacity(err) == err.code \in unfulfillableCapacityErrorCodes

\* CreateFleetOutput.Errors: an error code and the offering it is about each
MaxFleetErrors == 1
CreateFleetErrors == [code : FleetErrorCodes, offering : FleetOfferings]
RECURSIVE SetsUpTo(_)
SetsUpTo(k) ==
    IF k = 0 THEN {{}}
    ELSE SetsUpTo(k - 1) \cup {errs \cup {e} : errs \in SetsUpTo(k - 1), e \in CreateFleetErrors}
FleetErrorSets == SetsUpTo(MaxFleetErrors)
\* what CreateFleet returns: the error of the call and, without one, the
\* errors of the output and whether it holds an instance
FleetOutput(err, errors, launched) == [err |-> err, errors |-> errors, launched |-> launched]

\* CreateFleet as EC2 answers it: a launch template that does not exist is
\* not found, otherwise the call fails, or the fleet answers with an
\* instance, with errors about offerings, or both
createFleetAnswers ==
    IF ~(createRequest \subseteq ltCloud)
    THEN {FleetOutput(launchTemplateNotFoundCode, {}, FALSE)}
    ELSE {FleetOutput(RequestLimitExceeded, {}, FALSE)}
         \cup {FleetOutput(NoError, errors, launched) :
                    errors \in FleetErrorSets, launched \in BOOLEAN}

\* InstanceTypeProvider.CacheUnavailable: the offering of the fleet error is
\* kept as unavailable
CacheUnavailable(cache, err) == cache \cup {err.offering}
\* InstanceProvider.updateUnavailableOfferingsCache
updateUnavailableOfferingsCache_Never(cache, errors) == cache
updateUnavailableOfferingsCache(cache, errors) ==
    cache \cup UNION {CacheUnavailable({}, err) : err \in {e \in errors : isUnfulfillableCapacity(e)}}

\* combineFleetErrors: an error made of the texts of the fleet errors, which
\* carries no AWS error code
FleetErrors == "with fleet error(s)"
combineFleetErrors(errors) == FleetErrors

\* what launchInstance returns after the CreateFleet call
launchInstanceReturns(out) ==
    IF out.err # NoError THEN out.err
    ELSE IF ~out.launched THEN combineFleetErrors(out.errors)
    ELSE NoError

\* the rest of launchInstance, and Create up to its return or to its retry
CreateFleetWith(out) ==
    /\ createPc = "fleet"
    /\ out \in createFleetAnswers
    /\ IF isLaunchTemplateNotFound(out.err)
       THEN \E silent \in SUBSET janitorEvicts :
               /\ ltCache' = Invalidate(ltCache, createRequest) \ silent
               /\ ltExpired' = Invalidate(ltExpired, createRequest) \ silent
               /\ ltSince' = Since(createRequest, "invalidated")
       ELSE UNCHANGED <<ltCache, ltExpired, ltSince>>
    /\ UNCHANGED ltEvicted
    /\ unavailableOfferings' =
           IF out.err = NoError
           THEN updateUnavailableOfferingsCache(unavailableOfferings, out.errors)
           ELSE unavailableOfferings
    /\ LET err == launchInstanceReturns(out)
       IN  IF retryLaunch(err, launches)
           THEN createPc' = "retry" /\ createResult' = "none"
           ELSE /\ createPc' = "idle"
                /\ createResult' = IF err = NoError THEN "node" ELSE err
    /\ UNCHANGED <<ltCloud, createRequest, launches>>
    /\ UNCHANGED <<instanceState, terminateCalls, terminated>>
    /\ UNCHANGED <<mainVars, configVars, watcherVars, driftVars>>

CreateFleet == \E out \in createFleetAnswers : CreateFleetWith(out)

\* the entry of an offering in the cache of unavailable offerings expires
UnavailableOfferingExpires(offering) ==
    /\ offering \in unavailableOfferings
    /\ unavailableOfferings' = unavailableOfferings \ {offering}
    /\ UNCHANGED <<ltCache, ltCloud, createPc, createRequest, launches, createResult>>
    /\ UNCHANGED ltHookVars
    /\ UNCHANGED <<instanceState, terminateCalls, terminated>>
    /\ UNCHANGED <<mainVars, configVars, watcherVars, driftVars>>

\* the second launchInstance of Create, up to its CreateFleet call
RetryLaunch(getErr) ==
    /\ createPc = "retry"
    /\ launches' = launches + 1
    /\ getLaunchTemplateConfigs(createRequest, getErr)
    /\ UNCHANGED ltEvicted
    /\ UNCHANGED createRequest
    /\ UNCHANGED <<instanceState, terminateCalls, terminated, unavailableOfferings>>
    /\ UNCHANGED <<mainVars, configVars, watcherVars, driftVars>>

\* a launch template is deleted in EC2 while the cache still holds its name
LaunchTemplateDeleted(name) ==
    /\ name \in ltCloud
    /\ ltCloud' = ltCloud \ {name}
    /\ UNCHANGED <<ltCache, createPc, createRequest, launches, createResult>>
    /\ UNCHANGED ltHookVars
    /\ UNCHANGED <<instanceState, terminateCalls, terminated, unavailableOfferings>>
    /\ UNCHANGED <<mainVars, configVars, watcherVars, driftVars>>

\* the entry of a key passes its expiration
Expires(key) ==
    /\ key \in Unexpired
    /\ ltExpired' = ltExpired \cup {key}
    /\ UNCHANGED <<ltCache, ltCloud, ltEvicted, ltSince>>
    /\ UNCHANGED <<createPc, createRequest, launches, createResult, unavailableOfferings>>
    /\ UNCHANGED <<instanceState, terminateCalls, terminated>>
    /\ UNCHANGED <<mainVars, configVars, watcherVars, driftVars>>

\* the cache's janitor runs DeleteExpired: it takes the entries past their
\* expiration out of the cache, and then calls the eviction hook for each
DeleteExpired ==
    /\ janitorEvicts # {}
    /\ ltCache' = ltCache \ janitorEvicts
    /\ ltExpired' = {}
    /\ ltEvicted' = janitorEvicts
    /\ ltSince' = [key \in CacheKeys |-> "none"]
    /\ UNCHANGED ltCloud
    /\ UNCHANGED <<createPc, createRequest, launches, createResult, unavailableOfferings>>
    /\ UNCHANGED <<instanceState, terminateCalls, terminated>>
    /\ UNCHANGED <<mainVars, configVars, watcherVars, driftVars>>

\* LaunchTemplateProvider.onCacheEvicted decides whether to delete the launch
\* template of the evicted key in EC2
deletesLaunchTemplate_Always(key) == key # kubernetesVersionCacheKey
deletesLaunchTemplate(key) ==
    /\ key # kubernetesVersionCacheKey
    /\ key \notin Unexpired

\* the janitor's call of LaunchTemplateProvider.onCacheEvicted for a key
onCacheEvicted(key) ==
    /\ key \in ltEvicted
    /\ ltEvicted' = ltEvicted \ {key}
    /\ ltSince' = [ltSince EXCEPT ![key] = "none"]
    /\ ltCloud' = IF deletesLaunchTemplate(key) THEN ltCloud \ {key} ELSE ltCloud
    /\ UNCHANGED <<ltCache, ltExpired>>
    /\ UNCHANGED <<createPc, createRequest, launches, createResult, unavailableOfferings>>
    /\ UNCHANGED <<instanceState, terminateCalls, terminated>>
    /\ UNCHANGED <<mainVars, configVars, watcherVars, driftVars>>

\* TerminateInstances as EC2 answers it
terminateInstancesAnswers ==
    IF instanceState = "absent" THEN {InstanceNotFoundCode, RequestLimitExceeded}
    ELSE {NoError, RequestLimitExceeded}
\* getInstance: the error it returns, given whether DescribeInstances failed
getInstance(describeFails) ==
    IF describeFails THEN RequestLimitExceeded
    ELSE IF instanceState = "absent" THEN InstanceNotFoundCode
    ELSE IF instanceState = "terminated" THEN InstanceTerminatedError
    ELSE NoError

\* InstanceProvider.Terminate of a node with a provider id: what it returns
\* given the error of TerminateInstances and the error of getInstance
terminateReturns(err, errMsg) ==
    IF err = NoError THEN "nil"
    ELSE IF isNotFound(err) THEN "nil"
    ELSE IF isInstanceTerminated(errMsg) \/ isNotFound(errMsg) THEN "nil"
    ELSE "error"

Terminate ==
    /\ terminateCalls < MaxTerminateCalls
    /\ terminateCalls' = terminateCalls + 1
    /\ \E err \in terminateInstancesAnswers, describeFails \in BOOLEAN :
          LET errMsg == IF err = NoError \/ isNotFound(err) THEN NoError
                        ELSE getInstance(describeFails)
          IN  /\ terminated' = [terminateErr |-> err, describeErr |-> errMsg,
                                result |-> terminateReturns(err, errMsg)]
              /\ instanceState' = IF err = NoError /\ instanceState = "running"
                                  THEN "terminated" ELSE instanceState
    /\ UNCHANGED <<ltCache, ltCloud, createPc, createRequest, launches, createResult,
                   unavailableOfferings>>
    /\ UNCHANGED ltHookVars
    /\ UNCHANGED <<mainVars, configVars, watcherVars, driftVars>>

\* EC2 takes the instance away, and forgets a terminated instance after a while
InstanceGoes ==
    /\ instanceState \in {"running", "terminated"}
    /\ instanceState' = IF instanceState = "running" THEN "terminated" ELSE "absent"
    /\ UNCHANGED <<ltCache, ltCloud, createPc, createRequest, launches, createResult,
                   unavailableOfferings>>
    /\ UNCHANGED ltHookVars
    /\ UNCHANGED <<terminateCalls, terminated>>
    /\ UNCHANGED <<mainVars, configVars, watcherVars, driftVars>>

\* the reconciler as constructed, and nodes nobody has touched yet
InitController ==
    /\ unschedulable = [n \in NodeIds |-> FALSE]
    /\ deletionTimestamp = [n \in NodeIds |-> FALSE]
    /\ MarkedForDeletion = [n \in NodeIds |-> FALSE]
    /\ recentScale = FALSE
    /\ instance = [n \in NodeIds |-> "running"]
    /\ pc = "idle"
    /\ candidates = <<>>
    /\ idx = 0
    /\ action = NoAction
    /\ nodeNames = <<>>
    /\ waitIdx = 0
    /\ lastConsolidationState = Stale
    /\ clusterState = Stale
    /\ deletionWait = [n \in NodeIds |-> "none"]
    /\ quiet = TRUE
    /\ eviction = [n \in NodeIds |-> NoEviction]
    /\ drainClock = [n \in NodeIds |-> "none"]

InitNodesWith(firstMetas, firstPods) ==
    /\ phase = [n \in NodeIds |-> IF n <= InitNodes THEN "present" ELSE "absent"]
    /\ \E first \in firstMetas :
          meta = [n \in NodeIds |-> IF n = 1 THEN first
                                    ELSE IF n <= InitNodes THEN OnDemandMeta
                                    ELSE NoMeta]
    /\ initialized = [n \in NodeIds |-> n <= InitNodes]
    /\ \E first \in firstPods :
          pods = [n \in NodeIds |-> IF n = 1 THEN first
                                    ELSE IF n <= InitNodes THEN {"app"}
                                    ELSE {}]
    /\ InitController

\* nodes of pools that configure no terminationGracePeriod
InitWith(firstMetas, firstPods) ==
    /\ InitNodesWith(firstMetas, firstPods)
    /\ terminationGracePeriod = [n \in NodeIds |-> FALSE]
    /\ InitConfig
    /\ InitProvider
    /\ InitWatcher
    /\ InitDrift

Init == InitWith(InitMetas, InitPods)
InitDecision == InitWith(DecisionMetas, DecisionPods)

\* ------------------------------------------------------- candidate listing
candidateNode(n) ==
    [name |-> n, deleting |-> deletionTimestamp[n], pods |-> GetNodePods(pods[n]),
     instanceType |-> meta[n].instanceType, capacityType |-> meta[n].capacityType,
     disruptionCost |-> disruptionCost(GetNodePods(pods[n])), created |-> meta[n].created]

\* candidateNodes, given the nodes the cluster state holds as nominated
skipMarked(n) == MarkedForDeletion[n]
candidateNodes_IgnoreAnnotation(nominated) ==
    {candidateNode(n) : n \in
        {m \in NodeIds :
            /\ phase[m] = "present"
            /\ ~skipMarked(m)
            /\ meta[m].provisioner \in ProvisionerNames
            /\ meta[m].instanceType \in InstanceTypes
            /\ Provisioners[meta[m].provisioner]
            /\ meta[m].capacityType # ""
            /\ meta[m].zone # ""
            /\ initialized[m]
            /\ m \notin nominated}}
candidateNodes(nominated) ==
    {candidateNode(n) : n \in
        {m \in NodeIds :
            /\ phase[m] = "present"
            /\ ~skipMarked(m)
            /\ meta[m].provisioner \in ProvisionerNames
            /\ meta[m].instanceType \in InstanceTypes
            /\ Provisioners[meta[m].provisioner]
            /\ meta[m].capacityType # ""
            /\ meta[m].zone # ""
            /\ initialized[m]
            /\ m \notin nominated
            /\ ~meta[m].doNotConsolidate}}

\* byNodeDisruptionCost: a is ordered before b
byNodeDisruptionCost_YoungerFirst(a, b) ==
    IF a.disruptionCost = b.disruptionCost THEN b.created < a.created
    ELSE a.disruptionCost < b.disruptionCost
byNodeDisruptionCost(a, b) ==
    IF a.disruptionCost = b.disruptionCost THEN a.created < b.created
    ELSE a.disruptionCost < b.disruptionCost

\* cluster.ForEachNode: the orders in which it may hand the nodes to
\* candidateNodes, which appends the candidates in that order. It is taken to
\* enumerate the nodes in one fixed order, that of their names.
Perms(S) ==
    {f \in [1..Cardinality(S) -> S] : \A i, j \in 1..Cardinality(S) : i # j => f[i] # f[j]}
RECURSIVE ByName(_)
ByName(S) ==
    IF S = {} THEN <<>>
    ELSE LET c == CHOOSE x \in S : \A y \in S : x.name <= y.name
         IN  <<c>> \o ByName(S \ {c})
ForEachNode_MapOrder(S) == Perms(S)
ForEachNode(S) == {ByName(S)}

\* sort.Slice(candidates, byNodeDisruptionCost(candidates)): on the slices of
\* at most twelve candidates met here it is an insertion sort, which moves an
\* element before its neighbour only when the comparator says so
Front(s) == SubSeq(s, 1, Len(s) - 1)
RECURSIVE Insert(_, _)
Insert(s, x) ==
    IF s = <<>> \/ ~byNodeDisruptionCost(x, s[Len(s)]) THEN Append(s, x)
    ELSE Append(Insert(Front(s), x), s[Len(s)])
RECURSIVE sortSlice(_)
sortSlice(s) ==
    IF s = <<>> THEN <<>> ELSE Insert(sortSlice(Front(s)), s[Len(s)])

\* lo.Filter and lo.Map over the candidates in their order: the names of the
\* empty ones
NodesOf(s) == [i \in DOMAIN s |-> s[i].name]

\* nodes in ascending name order
RECURSIVE SetToSeq(_)
SetToSeq(S) ==
    IF S = {} THEN <<>>
    ELSE LET m == CHOOSE x \in S : \A y \in S : x <= y
         IN  <<m>> \o SetToSeq(S \ {m})

\* stabilizationWindow in minutes, given whether no pod is pending and every
\* workload is ready
stabilizationWindow_None(isQuiet) == 0
stabilizationWindow(isQuiet) == IF isQuiet THEN 0 ELSE 5

\* ------------------------------------------------------------- reconciler
\* The cluster state records a change that bears on consolidation: every
\* value read before is an older one.
RecordConsolidationChange ==
    /\ lastConsolidationState' = Stale
    /\ clusterState' = Stale

\* setNodeUnschedulable(nodeName, isUnschedulable), given whether the patch
\* fails: the error it returns and the value the node is left with.
setNodeUnschedulable_NoPatch(n, isUnschedulable, patchErr) ==
    [err |-> phase[n] # "present", value |-> unschedulable[n]]
setNodeUnschedulable(n, isUnschedulable, patchErr) ==
    IF phase[n] # "present" THEN [err |-> TRUE, value |-> unschedulable[n]]
    ELSE IF ~isUnschedulable /\ deletionTimestamp[n]
        THEN [err |-> FALSE, value |-> unschedulable[n]]
    ELSE IF unschedulable[n] = isUnschedulable
        THEN [err |-> FALSE, value |-> unschedulable[n]]
    ELSE IF patchErr THEN [err |-> TRUE, value |-> unschedulable[n]]
    ELSE [err |-> FALSE, value |-> isUnschedulable]

\* cluster.MarkForDeletion / UnmarkForDeletion on a node the cluster state holds
MarkForDeletion(n) ==
    IF phase[n] = "present" THEN [MarkedForDeletion EXCEPT ![n] = TRUE]
    ELSE MarkedForDeletion
UnmarkForDeletion_All(n) == [m \in NodeIds |-> FALSE]
UnmarkForDeletion(n) ==
    IF phase[n] = "present" THEN [MarkedForDeletion EXCEPT ![n] = FALSE]
    ELSE MarkedForDeletion

\* ProcessCluster returns result to Reconcile, which returns; changed tells
\* whether this step changed the cluster's consolidation state
Return_RecordsAny(result, changed) ==
    /\ pc' = "idle"
    /\ lastConsolidationState' = IF changed THEN Stale ELSE clusterState
    /\ clusterState' = Stale
    /\ candidates' = <<>>
    /\ idx' = 0
    /\ action' = NoAction
    /\ nodeNames' = <<>>
    /\ waitIdx' = 0
Return(result, changed) ==
    /\ pc' = "idle"
    /\ lastConsolidationState' =
          IF changed THEN Stale
          ELSE IF result = "NothingToDo" THEN clusterState
          ELSE lastConsolidationState
    /\ clusterState' = Stale
    /\ candidates' = <<>>
    /\ idx' = 0
    /\ action' = NoAction
    /\ nodeNames' = <<>>
    /\ waitIdx' = 0

\* performConsolidation goes on at next, or returns
Goto(next, changed) ==
    IF next = "idle" THEN Return("Consolidated", changed)
    ELSE /\ pc' = next
         /\ IF changed THEN RecordConsolidationChange ELSE UNCHANGED heldVars
         /\ UNCHANGED <<candidates, idx, action, nodeNames, waitIdx>>

\* line 1078: the candidates that hold no pod
emptyNodes_None(cands) == {}
emptyNodes(cands) == {c \in cands : c.pods = {}}

\* Reconcile up to the end of the empty-node phase of ProcessCluster, given
\* the nodes the cluster state holds as nominated
ReconcileWith(nominated) ==
    /\ pc = "idle"
    /\ IF lastConsolidationState = ClusterConsolidationState
       THEN UNCHANGED vars
       ELSE IF stabilizationWindow(quiet) # 0 /\ recentScale
            THEN UNCHANGED vars
            ELSE \E order \in ForEachNode(candidateNodes(nominated)) :
                 LET cands == candidateNodes(nominated)
                     empty == emptyNodes(cands)
                 IN  /\ UNCHANGED <<nodeVars, mirrorVars, cloudVars>>
                     /\ IF cands = {}
                        THEN /\ lastConsolidationState' = ClusterConsolidationState
                             /\ UNCHANGED <<ctrlVars, clusterState>>
                        ELSE IF empty # {}
                        THEN /\ action' = Act("DeleteEmpty",
                                              NodesOf(SelectSeq(order,
                                                  LAMBDA c : c \in empty)),
                                              NoTemplate, FALSE)
                             /\ pc' = "delete"
                             /\ clusterState' = ClusterConsolidationState
                             /\ UNCHANGED <<candidates, idx, nodeNames, waitIdx,
                                            lastConsolidationState>>
                        ELSE /\ candidates' = sortSlice(order)
                             /\ idx' = 1
                             /\ pc' = "evaluate"
                             /\ clusterState' = ClusterConsolidationState
                             /\ UNCHANGED <<action, nodeNames, waitIdx,
                                            lastConsolidationState>>
    /\ UNCHANGED <<deletionWait, quiet, eviction>>
    /\ UNCHANGED graceVars
    /\ UNCHANGED sideVars

Reconcile ==
    \E nominated \in SUBSET {n \in NodeIds : phase[n] = "present"} :
        ReconcileWith(nominated)

\* line 1408: the cluster state holds the candidate as marked for deletion
candidateNodeIsDeleting_Never(n) == FALSE
candidateNodeIsDeleting(n) == phase[n] = "present" /\ MarkedForDeletion[n]

\* the nodes the simulation may place pods on, and the pods of deleting nodes
stateNodes_All(n) == {m \in NodeIds \ {n} : phase[m] = "present"}
stateNodes(n) ==
    {m \in NodeIds \ {n} : phase[m] = "present" /\ ~MarkedForDeletion[m]}
markedForDeletionNodes(n) ==
    {m \in NodeIds \ {n} : phase[m] = "present" /\ MarkedForDeletion[m]}
RECURSIVE CountPods(_)
CountPods(S) ==
    IF S = {} THEN 0
    ELSE LET m == CHOOSE x \in S : TRUE
         IN  Cardinality(GetNodePods(pods[m])) + CountPods(S \ {m})

\* lines 1428-1444: the answers the scheduler may give for the candidate
simulations(node, templates) ==
    Solve(Cardinality(node.pods), CountPods(markedForDeletionNodes(node.name)),
          stateNodes(node.name) # {}, templates)

\* One pass of the loop of ProcessCluster, over candidates[idx], given the
\* node templates the scheduler may answer with
EvaluateWith(templates) ==
    /\ pc = "evaluate"
    /\ UNCHANGED <<nodeVars, mirrorVars, cloudVars>>
    /\ LET node == candidates[idx]
           last == idx = Len(candidates)
           sims == simulations(node, templates)
           options == IF canBeTerminated(node)
                      THEN {nodeConsolidationOptionReplaceOrDelete(
                                node, candidateNodeIsDeleting(node.name), sim) :
                            sim \in sims}
                      ELSE {NoAction}
       IN  \E a \in options :
               IF a.result \in {"Delete", "Replace"}
               THEN /\ action' = a
                    /\ pc' = IF a.result = "Replace" THEN "cordon" ELSE "delete"
                    /\ candidates' = <<>>
                    /\ idx' = 0
                    /\ UNCHANGED <<nodeNames, waitIdx, clusterState,
                                   lastConsolidationState>>
               ELSE IF last
               THEN Return("NothingToDo", FALSE)
               ELSE /\ idx' = idx + 1
                    /\ UNCHANGED <<pc, candidates, action, nodeNames, waitIdx,
                                   clusterState, lastConsolidationState>>
    /\ UNCHANGED <<deletionWait, quiet, eviction>>
    /\ UNCHANGED graceVars
    /\ UNCHANGED sideVars

Evaluate == EvaluateWith(ProvisionerTemplates)
EvaluateAnyTemplate == EvaluateWith(Templates)

oldNode == action.oldNodes[1]

\* lines 1243-1250: where performConsolidation goes when launchReplacementNode returns
afterReplacement_IgnoreError(err) == "delete"
afterReplacement(err) == IF err THEN "idle" ELSE "delete"

\* launchReplacementNode: cordon the node
Cordon ==
    /\ pc = "cordon"
    /\ \E patchErr \in BOOLEAN :
        LET r == setNodeUnschedulable(oldNode, TRUE, patchErr)
        IN  /\ unschedulable' = [unschedulable EXCEPT ![oldNode] = r.value]
            /\ Goto(IF r.err THEN afterReplacement(TRUE) ELSE "launch", FALSE)
    /\ UNCHANGED <<phase, meta, deletionTimestamp, initialized, pods, mirrorVars,
                   cloudVars>>
    /\ UNCHANGED <<deletionWait, quiet, eviction>>
    /\ UNCHANGED graceVars
    /\ UNCHANGED sideVars

\* provisioner.LaunchNodes for one node template: an error, or the names of
\* the nodes it created and the offering they were launched from
FreshIds == {n \in NodeIds : phase[n] = "absent"}
RECURSIVE Lowest(_, _)
Lowest(S, k) ==
    IF k = 0 \/ S = {} THEN <<>>
    ELSE LET m == CHOOSE x \in S : \A y \in S : x <= y
         IN  <<m>> \o Lowest(S \ {m}, k - 1)
LaunchNodes(template) ==
    {[err |-> TRUE, names |-> <<>>, offering |-> CHOOSE o \in Offerings : TRUE]}
    \cup
    {[err |-> FALSE, names |-> Lowest(FreshIds, k), offering |-> o] :
        k \in 0..(IF Cardinality(FreshIds) < 2 THEN Cardinality(FreshIds) ELSE 2),
        o \in {x \in Offerings : x.it \in template.options /\ x.ct \in template.capacityTypes}}

Range(f) == {f[i] : i \in DOMAIN f}

\* line 1321: what launchReplacementNode does when LaunchNodes returned no
\* error: go on when it got one name, return an error otherwise
afterLaunch_AnyCount(names) == "waitReady"
afterLaunch(names) == IF Len(names) # 1 THEN "idle" ELSE "waitReady"

\* launchReplacementNode: launch the replacement and mark the node
Launch ==
    /\ pc = "launch"
    /\ \E out \in LaunchNodes(action.replacementNode), patchErr \in BOOLEAN :
        LET created == Range(out.names) IN
        /\ phase' = [n \in NodeIds |-> IF n \in created THEN "present" ELSE phase[n]]
        /\ meta' = [n \in NodeIds |->
                      IF n \in created
                      THEN Meta("default", out.offering.it, out.offering.ct, "zone-a", FALSE, 2)
                      ELSE meta[n]]
        /\ recentScale' = (recentScale \/ created # {})
        /\ IF out.err
           THEN /\ unschedulable' = [unschedulable EXCEPT
                        ![oldNode] = setNodeUnschedulable(oldNode, FALSE, patchErr).value]
                /\ Goto(afterReplacement(TRUE), created # {})
                /\ UNCHANGED MarkedForDeletion
           ELSE IF afterLaunch(out.names) = "idle"
           THEN /\ Goto(afterReplacement(TRUE), created # {})
                /\ UNCHANGED <<unschedulable, MarkedForDeletion>>
           ELSE /\ MarkedForDeletion' = MarkForDeletion(oldNode)
                /\ pc' = "waitReady"
                /\ nodeNames' = out.names
                /\ RecordConsolidationChange
                /\ UNCHANGED <<unschedulable, candidates, idx, action, waitIdx>>
    /\ UNCHANGED <<deletionTimestamp, initialized, pods, cloudVars>>
    /\ UNCHANGED <<deletionWait, quiet, eviction>>
    /\ UNCHANGED graceVars
    /\ UNCHANGED sideVars

\* launchReplacementNode: the wait for the replacement to be ready. An attempt
\* finds the node initialized, or fails and is retried, or fails as the last
\* attempt retry.Do makes.
waitForReady_Forever(ready, exhausted) == IF ready THEN "ready" ELSE "retry"
waitForReady(ready, exhausted) ==
    IF ready THEN "ready" ELSE IF exhausted THEN "timedOut" ELSE "retry"

WaitReady ==
    /\ pc = "waitReady"
    /\ \E exhausted \in BOOLEAN, patchErr \in BOOLEAN :
        LET new == nodeNames[1]
            outcome == waitForReady(phase[new] = "present" /\ initialized[new], exhausted)
        IN  IF outcome = "ready"
            THEN /\ Goto(afterReplacement(FALSE), FALSE)
                 /\ UNCHANGED <<unschedulable, MarkedForDeletion>>
            ELSE IF outcome = "retry"
            THEN UNCHANGED <<unschedulable, MarkedForDeletion, recVars>>
            ELSE /\ MarkedForDeletion' = UnmarkForDeletion(oldNode)
                 /\ unschedulable' = [unschedulable EXCEPT
                        ![oldNode] = setNodeUnschedulable(oldNode, FALSE, patchErr).value]
                 /\ Goto(afterReplacement(TRUE), FALSE)
    /\ UNCHANGED <<phase, meta, deletionTimestamp, initialized, pods, recentScale,
                   cloudVars>>
    /\ UNCHANGED <<deletionWait, quiet, eviction>>
    /\ UNCHANGED graceVars
    /\ UNCHANGED sideVars

\* performConsolidation: kubeClient.Delete on every old node
DeleteNodes ==
    /\ pc = "delete"
    /\ deletionTimestamp' =
          [n \in NodeIds |->
              IF n \in Range(action.oldNodes) /\ phase[n] = "present"
              THEN TRUE ELSE deletionTimestamp[n]]
    /\ deletionWait' =
          [n \in NodeIds |->
              IF n \in Range(action.oldNodes) /\ phase[n] = "present"
              THEN "requested" ELSE deletionWait[n]]
    /\ pc' = "waitDeletion"
    /\ waitIdx' = 1
    /\ UNCHANGED <<phase, meta, unschedulable, initialized, pods, mirrorVars, cloudVars,
                   candidates, idx, action, nodeNames, clusterState,
                   lastConsolidationState>>
    /\ UNCHANGED <<quiet, eviction>>
    /\ UNCHANGED graceVars
    /\ UNCHANGED sideVars

\* retry.Do in waitForDeletion, given whether the attempt finds the node gone
\* and whether it is the last attempt waitRetryOptions allow
waitForDeletion_NoWait(notFound, exhausted) == "deleted"
waitForDeletion(notFound, exhausted) ==
    IF notFound THEN "deleted" ELSE IF exhausted THEN "abandoned" ELSE "retry"

\* waitForDeletion of action.oldNodes[waitIdx]: an attempt finds the node gone,
\* or fails and is retried, or fails as the last attempt retry.Do makes.
WaitDeletion ==
    /\ pc = "waitDeletion"
    /\ \E exhausted \in BOOLEAN :
       LET n == action.oldNodes[waitIdx]
           outcome == waitForDeletion(phase[n] # "present", exhausted)
       IN  IF outcome = "retry"
           THEN UNCHANGED <<recVars, deletionWait>>
           ELSE /\ deletionWait' =
                      IF outcome = "abandoned"
                      THEN [deletionWait EXCEPT ![n] = "abandoned"]
                      ELSE deletionWait
                /\ IF waitIdx = Len(action.oldNodes)
                   THEN Return("Consolidated", FALSE)
                   ELSE /\ waitIdx' = waitIdx + 1
                        /\ UNCHANGED <<pc, candidates, idx, action, nodeNames,
                                       clusterState, lastConsolidationState>>
    /\ UNCHANGED <<nodeVars, mirrorVars, cloudVars>>
    /\ UNCHANGED <<quiet, eviction>>
    /\ UNCHANGED graceVars
    /\ UNCHANGED sideVars

\* ------------------------------------------------ termination controller
\* the pod has a deletion timestamp: its owner deleted it, or the eviction
\* API accepted its eviction
terminatingPods(n) ==
    {p \in pods[n] : IsTerminating(p) \/ eviction[n][p] = "evicting"}

\* The pods the drain looks at: not the succeeded or failed ones, and not the
\* ones stuck terminating, late being the terminating pods of the node whose
\* grace period has passed by now
getPods_CountStuck(n, late) == {p \in pods[n] : ~IsTerminal(p)}
getPods(n, late) == {p \in pods[n] : ~IsTerminal(p) /\ p \notin late}

\* pods that keep the node from draining at all
blocksDrain_Never(n, late) == FALSE
blocksDrain(n, late) ==
    \E p \in getPods(n, late) : HasDoNotEvict(p) \/ IsNotOwned(p)

\* the pods the drain evicts and waits for: not the ones that tolerate the
\* unschedulable taint, not the static ones
podsToEvict_All(n, late) == getPods(n, late)
podsToEvict(n, late) ==
    {p \in getPods(n, late) : ~Tolerates(p) /\ ~IsOwnedByNode(p)}

\* the pods a reconcile hands to the eviction queue: the critical ones only
\* once none of the others is left to evict
evictNext_All(n, late) == podsToEvict(n, late)
evictNext(n, late) ==
    LET nonCritical == {p \in podsToEvict(n, late) : ~IsCritical(p)}
    IN  IF nonCritical # {} THEN nonCritical ELSE podsToEvict(n, late)

\* the node's terminationGracePeriod, counted from the start of the drain,
\* has run out
graceExpired_Never(n) == FALSE
graceExpired(n) == terminationGracePeriod[n] /\ drainClock[n] = "elapsed"

drained_Always(n, late) == TRUE
drained(n, late) == ~blocksDrain(n, late) /\ podsToEvict(n, late) = {}

\* EvictionQueue.Add of the pods to evict
enqueue(n, ps) ==
    [p \in PodKinds |->
        IF p \in ps /\ eviction[n][p] = "none" THEN "queued" ELSE eviction[n][p]]

\* the instance once the node's termination completes: terminated by the
\* controller unless the cloud had taken it away already
terminate_Skipped(n) == instance[n]
terminate(n) == IF instance[n] = "gone" THEN "gone" ELSE "terminated"

\* termination.Controller.Reconcile of a node whose deletion was requested:
\* cordon it, and once it is drained terminate the instance and remove the
\* finalizer, which deletes the node object; until then enqueue the pods to
\* evict unless a pod keeps the node from draining
TerminationReconcileWith(n, late) ==
    /\ phase[n] = "present"
    /\ deletionTimestamp[n]
    /\ late \subseteq terminatingPods(n)
    /\  IF instance[n] = "gone" \/ drained(n, late) \/ graceExpired(n)
        THEN /\ instance' = [instance EXCEPT ![n] = terminate(n)]
             /\ phase' = [phase EXCEPT ![n] = "gone"]
             /\ meta' = [meta EXCEPT ![n] = NoMeta]
             /\ unschedulable' = [unschedulable EXCEPT ![n] = FALSE]
             /\ deletionTimestamp' = [deletionTimestamp EXCEPT ![n] = FALSE]
             /\ initialized' = [initialized EXCEPT ![n] = FALSE]
             /\ pods' = [pods EXCEPT ![n] = {}]
             /\ eviction' = [eviction EXCEPT ![n] = NoEviction]
             /\ MarkedForDeletion' = [MarkedForDeletion EXCEPT ![n] = FALSE]
             /\ RecordConsolidationChange
             /\ recentScale' = TRUE
             /\ deletionWait' = [deletionWait EXCEPT ![n] = "none"]
             /\ drainClock' = [drainClock EXCEPT ![n] = "none"]
        ELSE /\ unschedulable' = [unschedulable EXCEPT ![n] = TRUE]
             /\ drainClock' = [drainClock EXCEPT ![n] =
                    IF terminationGracePeriod[n] /\ @ = "none" THEN "running" ELSE @]
             /\ eviction' = [eviction EXCEPT ![n] =
                    IF blocksDrain(n, late) THEN eviction[n]
                    ELSE enqueue(n, evictNext(n, late))]
             /\ UNCHANGED <<phase, meta, deletionTimestamp, initialized, pods, instance,
                            mirrorVars, heldVars, deletionWait>>
    /\ UNCHANGED ctrlVars
    /\ UNCHANGED <<quiet, terminationGracePeriod>>
    /\ UNCHANGED sideVars

TerminationReconcile(n) ==
    \E late \in SUBSET terminatingPods(n) : TerminationReconcileWith(n, late)

\* The eviction queue's worker takes a pod and calls the eviction API: a
\* budget that allows no disruption refuses it and the pod is queued again,
\* otherwise the pod gets its deletion timestamp
evict_IgnoreBudget(p) == "evicting"
evict(p) == IF PodTable[p].pdbBlocked THEN "requeued" ELSE "evicting"
EvictPod(n, p) ==
    /\ phase[n] = "present"
    /\ p \in pods[n]
    /\ eviction[n][p] \in {"queued", "requeued"}
    /\ eviction' = [eviction EXCEPT ![n][p] = evict(p)]
    /\ IF evict(p) = "evicting" THEN RecordConsolidationChange ELSE UNCHANGED heldVars
    /\ UNCHANGED <<nodeVars, MarkedForDeletion, recentScale, cloudVars, ctrlVars>>
    /\ UNCHANGED <<deletionWait, quiet>>
    /\ UNCHANGED graceVars
    /\ UNCHANGED sideVars

\* ------------------------------------------------------------ environment
\* the pod object goes away: the pod ended or was deleted and the kubelet has
\* stopped it
PodRemoved(n, p) ==
    /\ phase[n] = "present"
    /\ p \in pods[n]
    /\ pods' = [pods EXCEPT ![n] = @ \ {p}]
    /\ eviction' = [eviction EXCEPT ![n][p] = "none"]
    /\ RecordConsolidationChange
    /\ UNCHANGED <<phase, meta, unschedulable, deletionTimestamp, initialized,
                   MarkedForDeletion, recentScale, cloudVars, ctrlVars>>
    /\ UNCHANGED <<deletionWait, quiet>>
    /\ UNCHANGED graceVars
    /\ UNCHANGED sideVars

\* the kubelet stops a pod whose eviction was accepted
PodTerminated(n, p) ==
    /\ eviction[n][p] = "evicting"
    /\ PodRemoved(n, p)

\* the kubelet of a launched node comes up and the node is labelled initialized
NodeInitializes(n) ==
    /\ phase[n] = "present"
    /\ ~initialized[n]
    /\ initialized' = [initialized EXCEPT ![n] = TRUE]
    /\ RecordConsolidationChange
    /\ UNCHANGED <<phase, meta, unschedulable, deletionTimestamp, pods, MarkedForDeletion,
                   recentScale, cloudVars, ctrlVars>>
    /\ UNCHANGED <<deletionWait, quiet, eviction>>
    /\ UNCHANGED graceVars
    /\ UNCHANGED sideVars

\* ------------------------------------------------------ disruption budgets
\* A pool that defines no budget has the one budget `nodes: 10%`
DefaultBudgetPercent == 10
\* roundup(total * percentage)
RoundUp(total, percent) == (total * percent + 99) \div 100
\* the nodes a pool owns, and those of them that are being deleted
PoolNodes(pool) == {n \in NodeIds : phase[n] = "present" /\ meta[n].provisioner = pool}
PoolDeleting(pool) == {n \in PoolNodes(pool) : deletionTimestamp[n]}
\* allowed_disruptions = roundup(total * percentage) - total_deleting -
\* total_notready, not below zero; every node of the model is ready
allowedDisruptions(pool) ==
    LET allowed == RoundUp(Cardinality(PoolNodes(pool)), DefaultBudgetPercent)
                       - Cardinality(PoolDeleting(pool))
    IN  IF allowed < 0 THEN 0 ELSE allowed
Pools == {m.provisioner : m \in InitMetas}


\* A forceful method (interruption, expiration, node repair) deletes the node
\* as soon as its condition is met: it consults no budget
forcefulProceeds_WithinBudget(n) == allowedDisruptions(meta[n].provisioner) > 0
forcefulProceeds(n) == TRUE

\* another controller (interruption, expiration, node repair) or a user
\* deletes the node, and the cluster state marks it for deletion (lines
\* 1420-1422)
ExternalDeleteUpTo(n, limit) ==
    /\ phase[n] = "present"
    /\ ~deletionTimestamp[n]
    /\ forcefulProceeds(n)
    /\ Cardinality({m \in NodeIds : deletionTimestamp[m] \/ phase[m] = "gone"}) < limit
    /\ deletionTimestamp' = [deletionTimestamp EXCEPT ![n] = TRUE]
    /\ MarkedForDeletion' = [MarkedForDeletion EXCEPT ![n] = TRUE]
    /\ RecordConsolidationChange
    /\ UNCHANGED <<phase, meta, unschedulable, initialized, pods, recentScale, cloudVars,
                   ctrlVars>>
    /\ UNCHANGED <<deletionWait, quiet, eviction>>
    /\ UNCHANGED graceVars
    /\ UNCHANGED sideVars
ExternalDelete(n) == ExternalDeleteUpTo(n, MaxDeleting)
\* the same where every node may come to be deleted
MaxForceful == 2
ForcefulDelete(n) == ExternalDeleteUpTo(n, MaxForceful)

\* the cloud takes away the instance of a node that is being drained (spot
\* interruption, manual termination)
InstanceDisappears(n) ==
    /\ phase[n] = "present"
    /\ deletionTimestamp[n]
    /\ instance[n] = "running"
    /\ instance' = [instance EXCEPT ![n] = "gone"]
    /\ UNCHANGED <<nodeVars, mirrorVars, recVars>>
    /\ UNCHANGED <<deletionWait, quiet, eviction>>
    /\ UNCHANGED graceVars
    /\ UNCHANGED sideVars

\* the terminationGracePeriod of a draining node runs out
GraceElapses(n) ==
    /\ phase[n] = "present"
    /\ terminationGracePeriod[n]
    /\ drainClock[n] = "running"
    /\ drainClock' = [drainClock EXCEPT ![n] = "elapsed"]
    /\ UNCHANGED <<nodeVars, mirrorVars, cloudVars, recVars, auxVars, terminationGracePeriod>>
    /\ UNCHANGED sideVars

\* a pod becomes pending or a workload not ready, or the last of them settles
WorkloadsChange ==
    /\ quiet' = ~quiet
    /\ UNCHANGED <<nodeVars, mirrorVars, cloudVars, recVars, deletionWait, eviction>>
    /\ UNCHANGED graceVars
    /\ UNCHANGED sideVars

\* five minutes pass without a node being created or deleted
TimePasses ==
    /\ recentScale
    /\ recentScale' = FALSE
    /\ UNCHANGED <<nodeVars, MarkedForDeletion, cloudVars, recVars>>
    /\ UNCHANGED <<deletionWait, quiet, eviction>>
    /\ UNCHANGED graceVars
    /\ UNCHANGED sideVars

Next ==
    \/ Reconcile
    \/ Evaluate
    \/ Cordon
    \/ Launch
    \/ WaitReady
    \/ DeleteNodes
    \/ WaitDeletion
    \/ \E n \in NodeIds : TerminationReconcile(n)
    \/ \E n \in NodeIds, p \in PodKinds : EvictPod(n, p)
    \/ \E n \in NodeIds, p \in PodKinds : PodTerminated(n, p)
    \/ \E n \in NodeIds : NodeInitializes(n)
    \/ \E n \in NodeIds : ExternalDelete(n)
    \/ WorkloadsChange
    \/ TimePasses

Spec == Init /\ [][Next]_vars

\* The termination controller alone, on nodes whose deletion is requested
\* while the consolidation reconciler is idle
NextTermination ==
    \/ \E n \in NodeIds : ExternalDelete(n)
    \/ \E n \in NodeIds : TerminationReconcile(n)
    \/ \E n \in NodeIds, p \in PodKinds : EvictPod(n, p)
    \/ \E n \in NodeIds, p \in PodKinds : PodRemoved(n, p)
    \/ \E n \in NodeIds : InstanceDisappears(n)

\* Nodes to drain: the first node runs up to MaxDrainPods pods of any kinds
MaxDrainPods == 2
DrainPods == {ps \in SUBSET PodKinds : Cardinality(ps) <= MaxDrainPods}
InitTermination == InitWith({OnDemandMeta}, DrainPods)

SpecTermination == InitTermination /\ [][NextTermination]_vars

\* The same with the controllers that requeue their work until it is done:
\* the termination controller requeues a node until it is removed, the
\* eviction queue requeues a pod until its eviction is accepted, and the
\* kubelet stops a pod that is being deleted
FairSpecTermination ==
    /\ SpecTermination
    /\ \A n \in NodeIds : WF_vars(TerminationReconcile(n))
    /\ \A n \in NodeIds, p \in PodKinds : WF_vars(EvictPod(n, p))
    /\ \A n \in NodeIds, p \in PodKinds : WF_vars(PodTerminated(n, p))

\* The termination controller on nodes that forceful methods delete
NextForceful ==
    \/ \E n \in NodeIds : ForcefulDelete(n)
    \/ \E n \in NodeIds : TerminationReconcile(n)
    \/ \E n \in NodeIds, p \in PodKinds : EvictPod(n, p)
    \/ \E n \in NodeIds, p \in PodKinds : PodRemoved(n, p)

SpecForceful == InitTermination /\ [][NextForceful]_vars

\* The termination controller on nodes with and without a configured
\* terminationGracePeriod: the first node has one, the second has none
NextGrace ==
    \/ \E n \in NodeIds : ExternalDelete(n)
    \/ \E n \in NodeIds : TerminationReconcile(n)
    \/ \E n \in NodeIds, p \in PodKinds : EvictPod(n, p)
    \/ \E n \in NodeIds, p \in PodKinds : PodRemoved(n, p)
    \/ \E n \in NodeIds : GraceElapses(n)

InitGrace ==
    /\ InitNodesWith({OnDemandMeta}, DrainPods)
    /\ terminationGracePeriod = [n \in NodeIds |-> n = 1]
    /\ InitConfig
    /\ InitProvider
    /\ InitWatcher
    /\ InitDrift

SpecGrace == InitGrace /\ [][NextGrace]_vars
FairSpecGrace ==
    /\ SpecGrace
    /\ \A n \in NodeIds : WF_vars(TerminationReconcile(n))

\* The settings alone: the ConfigMap, its watcher and the config
NextSettings ==
    \/ \E data \in ConfigMaps : UpdateConfigMap(data)
    \/ changeHandler
    \/ \E k \in DOMAIN defaultConfigMapData, v \in ConfigValues : ParsePositiveDuration(k, v)

InitSettings == InitWith({OnDemandMeta}, {{"app"}})
SpecSettings == InitSettings /\ [][NextSettings]_vars

\* The ConfigMap watcher alone
NextWatcher ==
    \/ \E handler \in Handlers : OnChange(handler)
    \/ \E data \in WatchedData : configMapChanged(data)

InitWatcherAlone == InitWith({OnDemandMeta}, {{"app"}})
SpecWatcher == InitWatcherAlone /\ [][NextWatcher]_vars

\* The drift check alone
NextDrift ==
    \/ \E getErr \in BOOLEAN : CheckDrift(getErr)
    \/ \E weight \in Weights, limits \in Limits, consolidation \in BOOLEAN :
          UpdateBehavior(weight, limits, consolidation)
    \/ \E exists, providerRef \in BOOLEAN : UpdateProvisioner(exists, providerRef)
    \/ \E template \in NodeTemplates : UpdateNodeTemplate(template)
    \/ \E listed \in SUBSET InstanceTypeNames, resolved \in SUBSET AMIs : Resolve(listed, resolved)

InitDriftAlone == InitWith({OnDemandMeta}, {{"app"}})
SpecDrift == InitDriftAlone /\ [][NextDrift]_vars

\* The launch template cache with its janitor, and the launches that use it
NextLaunchTemplates ==
    \/ \E req \in NodeRequests, getErr \in {NoError, RequestLimitExceeded} : Create(req, getErr)
    \/ CreateFleet
    \/ \E getErr \in {NoError, RequestLimitExceeded} : RetryLaunch(getErr)
    \/ \E name \in LaunchTemplateNames : LaunchTemplateDeleted(name)
    \/ \E key \in CacheKeys : Expires(key)
    \/ DeleteExpired
    \/ \E key \in CacheKeys : onCacheEvicted(key)

InitLaunchTemplates == InitWith({OnDemandMeta}, {{"app"}})
SpecLaunchTemplates == InitLaunchTemplates /\ [][NextLaunchTemplates]_vars

\* The instance provider alone
NextProvider ==
    \/ \E req \in NodeRequests, getErr \in {NoError, RequestLimitExceeded} : Create(req, getErr)
    \/ CreateFleet
    \/ \E getErr \in {NoError, RequestLimitExceeded} : RetryLaunch(getErr)
    \/ \E name \in LaunchTemplateNames : LaunchTemplateDeleted(name)
    \/ \E offering \in FleetOfferings : UnavailableOfferingExpires(offering)
    \/ Terminate
    \/ InstanceGoes

InitProviderAlone == InitWith({OnDemandMeta}, {{"app"}})
SpecProvider == InitProviderAlone /\ [][NextProvider]_vars

\* The decision procedure alone, over every first node and every template
NextDecision ==
    \/ Reconcile
    \/ EvaluateAnyTemplate

SpecDecision == InitDecision /\ [][NextDecision]_vars

\* The candidate listing and the single-node phase alone, over nodes of every
\* kind the listing tells apart: older and younger ones, with one pod or two,
\* with a pod that may not be evicted, without pods, annotated
\* do-not-consolidate, of a provisioner that was removed or that has
\* consolidation off, of an instance type the provisioner no longer offers,
\* and not yet initialized
Shape(m, ps, isInitialized) == [meta |-> m, pods |-> ps, initialized |-> isInitialized]
CandidateShapes ==
    {Shape(Meta("default", "large", CapacityTypeOnDemand, "zone-a", FALSE, created), ps, TRUE) :
        created \in {1, 2}, ps \in {{"app"}, {"app", "tolerant"}}}
    \cup
    {Shape(OnDemandMeta, {"dne"}, TRUE),
     Shape(OnDemandMeta, {}, TRUE),
     Shape(OnDemandMeta, {"app"}, FALSE),
     Shape(Meta("default", "large", CapacityTypeOnDemand, "zone-a", TRUE, 1), {"app"}, TRUE),
     Shape(Meta("removed", "large", CapacityTypeOnDemand, "zone-a", FALSE, 1), {"app"}, TRUE),
     Shape(Meta("batch", "large", CapacityTypeOnDemand, "zone-a", FALSE, 1), {"app"}, TRUE),
     Shape(Meta("default", "retired", CapacityTypeOnDemand, "zone-a", FALSE, 1), {"app"}, TRUE)}

InitCandidates ==
    /\ phase = [n \in NodeIds |-> "present"]
    /\ \E shape \in [NodeIds -> CandidateShapes] :
          /\ meta = [n \in NodeIds |-> shape[n].meta]
          /\ initialized = [n \in NodeIds |-> shape[n].initialized]
          /\ pods = [n \in NodeIds |-> shape[n].pods]
    /\ InitController
    /\ terminationGracePeriod = [n \in NodeIds |-> FALSE]
    /\ InitConfig
    /\ InitProvider
    /\ InitWatcher
    /\ InitDrift

NextCandidates ==
    \/ Reconcile
    \/ Evaluate
    \/ \E n \in NodeIds : ExternalDelete(n)

SpecCandidates == InitCandidates /\ [][NextCandidates]_vars

\* One reconciler and the controllers its waits depend on, over two on-demand
\* nodes of one pod each. The reconciler is one goroutine that goes on with
\* its next step or its next retry; nothing obliges a replacement to become
\* initialized or a deleted node to go away.
NextTick ==
    \/ Reconcile
    \/ Evaluate
    \/ Cordon
    \/ Launch
    \/ WaitReady
    \/ DeleteNodes
    \/ WaitDeletion
    \/ \E n \in NodeIds : TerminationReconcile(n)
    \/ \E n \in NodeIds, p \in PodKinds : EvictPod(n, p)
    \/ \E n \in NodeIds, p \in PodKinds : PodTerminated(n, p)
    \/ \E n \in NodeIds : NodeInitializes(n)

InitTick == InitWith({OnDemandMeta}, {{"app"}})
SpecTick == InitTick /\ [][NextTick]_vars
FairSpecTick ==
    /\ SpecTick
    /\ WF_vars(Evaluate)
    /\ WF_vars(Cordon)
    /\ WF_vars(Launch)
    /\ WF_vars(WaitReady)
    /\ WF_vars(DeleteNodes)
    /\ WF_vars(WaitDeletion)

\* ------------------------------------------------------------- properties
Present(n) == phase[n] = "present"
Decides == pc = "evaluate" /\ action'.result \in {"Delete", "Replace"}
DecidesEmpty == pc = "idle" /\ pc' = "delete"

\* C1: in a Replace action the reconciler comes to delete the old node only
\* from the wait for readiness, on an attempt that found the one replacement
\* node it launched present and initialized; a failed cordon, a failed launch
\* or a replacement that never initializes never leads to the delete.
C1_LaunchThenDelete ==
    [][(pc' = "delete" /\ pc # "delete" /\ action'.result = "Replace") =>
          /\ pc = "waitReady"
          /\ Len(nodeNames) = 1
          /\ Present(nodeNames[1])
          /\ initialized[nodeNames[1]]]_vars
C1_Witness ==
    /\ pc = "waitDeletion"
    /\ action.result = "Replace"
    /\ Present(oldNode) /\ deletionTimestamp[oldNode]
    /\ Present(nodeNames[1]) /\ initialized[nodeNames[1]]

\* C2: whenever the reconciler is about to ask for the replacement of a Replace
\* action, the old node, if it still exists, is unschedulable.
C2_TaintBeforeLaunch ==
    pc = "launch" => (Present(oldNode) => unschedulable[oldNode])
C2_Witness ==
    /\ pc = "waitReady"
    /\ Present(nodeNames[1])
    /\ Present(oldNode) /\ unschedulable[oldNode]

\* C3: whenever a Replace action fails after the old node was cordoned (at the
\* launch or at the wait for readiness), the old node is left schedulable and
\* not marked for deletion.
C3_FailureUntaints ==
    [][(pc \in {"launch", "waitReady"} /\ pc' = "idle" /\ Present(oldNode)
            /\ ~deletionTimestamp[oldNode]) =>
          (~unschedulable'[oldNode] /\ ~MarkedForDeletion'[oldNode])]_vars

\* C4: a node the cluster state holds as marked for deletion is not listed as
\* a candidate, is not among the empty nodes a tick deletes, and is not the
\* node of a Delete or Replace decision, also when it was marked after the
\* candidates were listed.
C4_MarkedNeverChosen ==
    [][/\ (pc = "idle" /\ pc' = "evaluate") =>
            \A i \in DOMAIN candidates' : ~MarkedForDeletion[candidates'[i].name]
       /\ DecidesEmpty =>
            \A i \in DOMAIN action'.oldNodes : ~MarkedForDeletion[action'.oldNodes[i]]
       /\ Decides => ~MarkedForDeletion[action'.oldNodes[1]]]_vars
C4_Witness ==
    /\ pc = "evaluate"
    /\ Present(candidates[idx].name)
    /\ MarkedForDeletion[candidates[idx].name]

\* C5 as stated: a node that is marked for deletion stays marked for as long
\* as it exists.
C5_NeverUnmarked ==
    [][\A n \in NodeIds :
          (Present(n) /\ MarkedForDeletion[n] /\ Present(n)') => MarkedForDeletion'[n]]_vars
\* C5 amended: a node that is marked for deletion stays marked for as long as
\* it exists, unless it is the old node of a Replace action whose replacement
\* did not report initialized within the retries: that failure unmarks it.
C5_UnmarkedOnlyOnTimeout ==
    [][\A n \in NodeIds :
          (Present(n) /\ MarkedForDeletion[n] /\ Present(n)' /\ ~MarkedForDeletion'[n]) =>
              /\ pc = "waitReady" /\ pc' = "idle"
              /\ n = oldNode
              /\ ~(Present(nodeNames[1]) /\ initialized[nodeNames[1]])]_vars
C5_Witness ==
    /\ pc = "waitReady"
    /\ Present(oldNode) /\ MarkedForDeletion[oldNode]
    /\ Present(nodeNames[1]) /\ ~initialized[nodeNames[1]]

\* C6: the nodes the reconciler deletes in a Delete, DeleteEmpty or Replace
\* action are unschedulable when the delete has set their deletion timestamp.
C6_DeletingIsTainted ==
    [][(pc = "delete" /\ pc' = "waitDeletion") =>
          \A i \in DOMAIN action.oldNodes :
              (Present(action.oldNodes[i])' /\ deletionTimestamp'[action.oldNodes[i]]) =>
                  unschedulable'[action.oldNodes[i]]]_vars

\* C7 as stated: a node object is gone only after the termination of its
\* instance was invoked.
C7_TerminateBeforeFinalize ==
    \A n \in NodeIds : phase[n] = "gone" => instance[n] = "terminated"
\* C7 amended: a node object is gone only after the termination of its
\* instance was invoked, or after the instance was found already gone.
C7_TerminateOrGoneBeforeFinalize ==
    \A n \in NodeIds : phase[n] = "gone" => instance[n] \in {"terminated", "gone"}
C7_Witness ==
    \E n \in NodeIds : phase[n] = "gone" /\ instance[n] = "terminated"

\* C8: a Replace decision leaves at least one instance type to launch, and
\* every offering the replacement may be launched from (an instance type left,
\* under a capacity type of the template) is priced strictly below the offering
\* of the node it replaces.
C8_ReplaceStrictlyCheaper ==
    [][(Decides /\ action'.result = "Replace") =>
          LET cand == candidates[idx]
              new == action'.replacementNode
          IN  /\ new.options # {}
              /\ HasOffering(cand.instanceType, cand.capacityType)
              /\ \A o \in Offerings :
                    (o.it \in new.options /\ o.ct \in new.capacityTypes) =>
                        o.price < OfferingPrice(cand.instanceType, cand.capacityType)]_vars
C8_Witness ==
    /\ pc = "cordon"
    /\ action.result = "Replace"
    /\ action.replacementNode.options # {}
    /\ action.replacementNode.options # InstanceTypes

\* C9: with spot-to-spot consolidation off, no Replace decision replaces a spot
\* node by a node that may be launched as spot.
C9_NoSpotToSpot ==
    [][(Decides /\ action'.result = "Replace" /\ ~spotToSpotConsolidation) =>
          ~(/\ candidates[idx].capacityType = CapacityTypeSpot
            /\ CapacityTypeSpot \in action'.replacementNode.capacityTypes)]_vars
C9_Witness ==
    /\ pc = "cordon"
    /\ action.result = "Replace"
    /\ meta[oldNode].capacityType = CapacityTypeSpot
    /\ action.replacementNode.capacityTypes = {CapacityTypeOnDemand}

\* C10: no node is chosen for a Delete, Replace or DeleteEmpty action while it
\* runs a pod that carries the do-not-evict annotation and is neither
\* terminating, nor terminal, nor owned by the node.
Unevictable(p) ==
    HasDoNotEvict(p) /\ ~IsTerminating(p) /\ ~IsTerminal(p) /\ ~IsOwnedByNode(p)
PDBBlocked(p) == PodTable[p].pdbBlocked
C12_DeleteOnlyWhenAllPodsFit ==
    [][(Decides /\ action'.result = "Delete") =>
          LET node == candidates[idx]
          IN  \A sim \in simulations(node, Templates) :
                  nodeConsolidationOptionReplaceOrDelete(
                      node, candidateNodeIsDeleting(node.name), sim) = action' =>
                      /\ sim.newNodes = 0
                      /\ sim.own = Cardinality(node.pods)]_vars

\* C13: a Replace decision comes only from an answer of the simulation that
\* needs exactly one new node; the reconciler goes on from the launch only when
\* the launch created exactly one node, and when it created another number the
\* action returns without a delete request for any node.
Launched == {n \in NodeIds : phase[n] = "absent" /\ phase'[n] = "present"}
C13_ExactlyOneReplacement ==
    [][/\ (Decides /\ action'.result = "Replace") =>
            LET node == candidates[idx]
            IN  \A sim \in simulations(node, Templates) :
                    nodeConsolidationOptionReplaceOrDelete(
                        node, candidateNodeIsDeleting(node.name), sim) = action' =>
                        sim.newNodes = 1
       /\ (pc = "launch" /\ pc' \notin {"launch", "idle"}) =>
            /\ pc' = "waitReady"
            /\ Cardinality(Launched) = 1
            /\ nodeNames' = SetToSeq(Launched)
       /\ (pc = "launch" /\ pc' # "launch" /\ Cardinality(Launched) # 1) =>
            /\ pc' = "idle"
            /\ deletionTimestamp' = deletionTimestamp]_vars
C13_Witness ==
    /\ pc = "waitReady"
    /\ action.result = "Replace"
    /\ Len(nodeNames) = 1
    /\ phase[nodeNames[1]] = "present"
    /\ ~deletionTimestamp[oldNode]

\* C14: a tick whose candidates include an empty one decides one DeleteEmpty
\* action over exactly the empty candidates and evaluates no candidate for
\* Delete or Replace; the action requests the deletion of those nodes only.
NominationSets == SUBSET {n \in NodeIds : Present(n)}
C14_DeleteEmptyCoversAllEmpty ==
    [][/\ DecidesEmpty =>
            /\ action'.result = "DeleteEmpty"
            /\ action'.oldNodes # <<>>
            /\ \E nominated \in NominationSets :
                  Range(action'.oldNodes) =
                      {c.name : c \in {d \in candidateNodes(nominated) : d.pods = {}}}
       /\ (pc = "idle" /\ pc' = "evaluate") =>
            \E nominated \in NominationSets :
                /\ Range(candidates') = candidateNodes(nominated)
                /\ \A c \in candidateNodes(nominated) : c.pods # {}
       /\ (pc = "delete" /\ action.result = "DeleteEmpty") =>
            /\ pc' \in {"delete", "waitDeletion"}
            /\ \A n \in NodeIds :
                  (deletionTimestamp'[n] /\ ~deletionTimestamp[n] /\ pc' # pc) =>
                      n \in Range(action.oldNodes)
       /\ (pc = "waitDeletion" /\ action.result = "DeleteEmpty") =>
            pc' \in {"waitDeletion", "idle"}]_vars
C14_Witness ==
    /\ pc = "waitDeletion"
    /\ action.result = "DeleteEmpty"
    /\ \E n \in Range(action.oldNodes) : Present(n) /\ deletionTimestamp[n]
    /\ \E n \in NodeIds \ Range(action.oldNodes) :
          /\ candidateNodes({}) # {}
          /\ n \in {c.name : c \in candidateNodes({})}
          /\ GetNodePods(pods[n]) # {}
          /\ ~deletionTimestamp[n]

\* C15 as stated: no Delete, Replace or DeleteEmpty action is selected while a
\* node whose deletion an earlier action requested still exists.
Selects == Decides \/ DecidesEmpty
StartsRound == pc = "idle" /\ pc' # "idle"
C16_StabilizationWindow ==
    /\ [][(StartsRound /\ ~quiet) => ~recentScale]_vars
    /\ [](( /\ pc = "idle"
            /\ quiet
            /\ lastConsolidationState # ClusterConsolidationState
            /\ candidateNodes({}) # {} ) => ENABLED (Reconcile /\ pc' # "idle"))
C16_Witness ==
    /\ pc = "idle"
    /\ ~quiet
    /\ recentScale
    /\ lastConsolidationState # ClusterConsolidationState
    /\ candidateNodes({}) # {}

\* ------------------------------------------------ properties of the drain
Deleting(n) == Present(n) /\ deletionTimestamp[n]
Finalizes(n) == Present(n) /\ phase'[n] = "gone"
Enqueues(n) == \E p \in PodKinds : eviction[n][p] = "none" /\ eviction'[n][p] = "queued"
\* a pod the drain evicts: not static, not tolerating, not succeeded or failed
Evictable(p) == ~IsOwnedByNode(p) /\ ~Tolerates(p) /\ ~IsTerminal(p)

Blocker(p) ==
    /\ ~IsTerminal(p)
    /\ \/ IsNotOwned(p)
       \/ HasDoNotEvict(p) /\ ~IsOwnedByNode(p) /\ ~Tolerates(p)
\* no pod keeps the node from draining and no budget refuses an eviction
Drainable(n) ==
    /\ ~blocksDrain(n, {})
    /\ \A p \in pods[n] : ~PodTable[p].pdbBlocked

Exempt(p) == IsOwnedByNode(p) \/ Tolerates(p) \/ IsTerminal(p)

\* C19 as stated: a static pod, a pod that tolerates the taint and a
\* succeeded or failed pod are never in the eviction queue, and a reconcile
\* of a deleting node that holds only such pods removes the node.
C19_ExemptPodsIgnored ==
    /\ [](\A n \in NodeIds, p \in PodKinds : Exempt(p) => eviction[n][p] = "none")
    /\ [][\A n \in NodeIds :
             (TerminationReconcile(n) /\ \A p \in pods[n] : Exempt(p)) =>
                 phase'[n] = "gone"]_vars
\* C19 amended: such pods are never in the eviction queue, and a reconcile
\* of a deleting node that holds only such pods removes the node unless one
\* of them is a non-terminal pod with the do-not-evict annotation.
C19_ExemptPodsIgnoredUnlessDoNotEvict ==
    /\ [](\A n \in NodeIds, p \in PodKinds : Exempt(p) => eviction[n][p] = "none")
    /\ [][\A n \in NodeIds :
             (/\ TerminationReconcile(n)
              /\ \A p \in pods[n] : Exempt(p)
              /\ \A p \in pods[n] : HasDoNotEvict(p) => IsTerminal(p)) =>
                 phase'[n] = "gone"]_vars
C19_Witness ==
    \E n \in NodeIds :
        /\ Deleting(n) /\ unschedulable[n]
        /\ \E p \in pods[n] : Exempt(p) /\ eviction[n][p] = "none"
        /\ \E p \in pods[n] : ~Exempt(p) /\ eviction[n][p] # "none"

\* an eviction attempt on a pod whose budget allows no disruption
Refused(n, p) == EvictPod(n, p) /\ PDBBlocked(p)
\* the pod's eviction was refused and the pod is still on the node
HeldByBudget(n, p) == p \in pods[n] /\ eviction[n][p] = "requeued"
\* a refused eviction leaves the pod on the node without a deletion
\* timestamp and back in the queue, where the attempt can be made again
RefusedIsRetried ==
    /\ [][\A n \in NodeIds, p \in PodKinds :
             Refused(n, p) => p \in pods'[n] /\ eviction'[n][p] = "requeued"]_vars
    /\ [](\A n \in NodeIds, p \in PodKinds :
             HeldByBudget(n, p) =>
                 /\ p \notin terminatingPods(n)
                 /\ ENABLED EvictPod(n, p)
                 /\ Deleting(n) /\ unschedulable[n])

HoldsNode(p) == ~IsTerminal(p) /\ ~IsTerminating(p) /\ (PDBBlocked(p) \/ HasDoNotEvict(p))

\* drainStart + terminationGracePeriod lies in the past
GraceOver(n) == terminationGracePeriod[n] /\ drainClock[n] = "elapsed"

\* C21: a reconcile of a draining node whose configured terminationGracePeriod
\* has elapsed terminates the instance and removes the node whatever pods are
\* on it, and a draining node whose grace period has elapsed is eventually
\* removed.
C21_GracePeriodBoundsDrain ==
    /\ [][\A n \in NodeIds :
             (TerminationReconcile(n) /\ GraceOver(n)) =>
                 /\ phase'[n] = "gone"
                 /\ instance'[n] = "terminated"]_vars
    /\ \A n \in NodeIds : (Deleting(n) /\ GraceOver(n)) ~> ~Present(n)
C21_Witness ==
    \E n \in NodeIds :
        /\ Deleting(n) /\ GraceOver(n)
        /\ \E p \in pods[n] : HoldsNode(p) /\ PDBBlocked(p)
        /\ \E p \in pods[n] : HoldsNode(p) /\ HasDoNotEvict(p)

MayDeleteMore ==
    Cardinality({m \in NodeIds : deletionTimestamp[m] \/ phase[m] = "gone"}) < MaxForceful

\* C23: a node that is not being deleted can be deleted by a forceful method
\* whatever its pool's budget allows, zero included, and the termination
\* controller then takes up the node whatever the budget allows.
C23_ForcefulIgnoresBudget ==
    \A n \in NodeIds :
        /\ (Present(n) /\ ~deletionTimestamp[n] /\ MayDeleteMore) => ENABLED ForcefulDelete(n)
        /\ Deleting(n) => ENABLED TerminationReconcile(n)
C23_Witness ==
    \E n \in NodeIds :
        /\ Deleting(n) /\ unschedulable[n]
        /\ \E m \in NodeIds \ {n} :
              /\ Deleting(m) /\ meta[m].provisioner = meta[n].provisioner
        /\ allowedDisruptions(meta[n].provisioner) = 0

\* ------------------------------------------------ properties of the settings
BatchParams == {paramBatchMaxDuration, paramBatchIdleDuration}
\* what Config.BatchMaxDuration() and Config.BatchIdleDuration() report
Reported(k) == IF k = paramBatchMaxDuration THEN batchMaxDuration ELSE batchIdleDuration
ValidValue(v) == ~ParseDuration(v).err /\ ParseDuration(v).d > 0
\* 10s and 1s
DefaultMs(k) == IF k = paramBatchMaxDuration THEN 10000 ELSE 1000

\* C24: once the handler has been given a ConfigMap that holds valid values
\* for batchMaxDuration and batchIdleDuration, the config reports exactly
\* those values, after a first update and after every further one.
C24_ConfigReportsConfigMap ==
    (/\ ~cmPending
     /\ BatchParams \subseteq DOMAIN cmData
     /\ \A k \in BatchParams : ValidValue(cmData[k])) =>
        \A k \in BatchParams : Reported(k) = ParseDuration(cmData[k]).d

\* C25: once the handler has been given a ConfigMap in which the value of a
\* batch duration is unparsable, zero or negative, the config reports the
\* default of that key, 10s for batchMaxDuration and 1s for
\* batchIdleDuration; and parsePositiveDuration yields the key's default for
\* every such value.
C25_InvalidValueGivesDefault ==
    /\ \A k \in BatchParams \cap DOMAIN cmData :
          (~cmPending /\ ~ValidValue(cmData[k])) => Reported(k) = DefaultMs(k)
    /\ (parsed.key \in BatchParams /\ ~ValidValue(parsed.value)) =>
          parsed.result = DefaultMs(parsed.key)
C25_Witness ==
    /\ ~cmPending
    /\ BatchParams \subseteq DOMAIN cmData
    /\ cmData[paramBatchIdleDuration] = <<"-", "2", "s">>
    /\ cmData[paramBatchMaxDuration] = <<"1", "5">>
    /\ parsed.key = paramBatchIdleDuration /\ parsed.value = <<"-", "2", "s">>

\* ---------------------------------------- properties of the instance provider
\* the CreateFleet call of the request is answered
FleetAnswered == createPc = "fleet" /\ createPc' # "fleet"
\* ... and fails because a launch template of the request does not exist
FleetFailsNotFound == FleetAnswered /\ ~(createRequest \subseteq ltCloud)

\* C26: a launch that fails because a launch template of the request no
\* longer exists removes the request's launch templates from the cache; after
\* the first such failure Create launches once more, for the same request;
\* whatever fails in that second launch is returned as Create's error; and
\* Create never launches more than twice.
C26_StaleTemplateRetriedOnce ==
    /\ [][FleetFailsNotFound => ltCache' \cap createRequest = {}]_vars
    /\ [][(FleetFailsNotFound /\ launches = 1) => createPc' = "retry"]_vars
    /\ [][(createPc = "retry" /\ createPc' # "retry") =>
              launches' = 2 /\ createRequest' = createRequest]_vars
    /\ [][(launches = 2 /\ createPc # "idle" /\ createPc' = "idle") =>
              (createResult' = "node" <=>
                  (createPc = "fleet" /\ createRequest \subseteq ltCloud
                   /\ createResult' \notin {RequestLimitExceeded, FleetErrors}))]_vars
    /\ [][(FleetFailsNotFound /\ launches = 2) =>
              createPc' = "idle" /\ createResult' = launchTemplateNotFoundCode]_vars
    /\ [](launches <= 2)
C26_Witness ==
    /\ createPc = "idle"
    /\ launches = 2
    /\ createResult = launchTemplateNotFoundCode
    /\ ltCache \cap createRequest = {}

\* the answers of EC2 that say the instance is gone
SaysGone(err) == err \in {InstanceNotFoundCode, InstanceTerminatedError}

\* C27: a Terminate to which EC2 answers that the instance is not found, or
\* whose look-up of the instance after a failed TerminateInstances finds it
\* not found or terminated, returns no error, on the first call and on every
\* later one; Terminate returns an error only when TerminateInstances failed
\* for another reason and the look-up did not find the instance gone.
C27_TerminateGoneSucceeds ==
    /\ terminated.terminateErr \in {NoError, InstanceNotFoundCode} => terminated.result # "error"
    /\ SaysGone(terminated.describeErr) => terminated.result = "nil"
    /\ terminated.result = "error" =>
          /\ terminated.terminateErr = RequestLimitExceeded
          /\ terminated.describeErr \in {NoError, RequestLimitExceeded}
C27_Witness ==
    /\ terminateCalls >= 2
    /\ instanceState = "absent"
    /\ terminated.terminateErr = InstanceNotFoundCode
    /\ terminated.result = "nil"


\* a is cheaper to disrupt than b, or as cheap and older
Ahead(a, b) ==
    \/ a.disruptionCost < b.disruptionCost
    \/ a.disruptionCost = b.disruptionCost /\ a.created < b.created

\* C28: the single-node phase goes through the candidates in ascending order of
\* disruption cost, the older first among equally costly ones, starting with
\* the first and passing to the next only when it takes no action on the one
\* at hand; the node of the Delete or Replace it decides is the candidate at
\* hand, which passes the eviction checks, and with that decision the phase
\* ends, so that no later candidate is acted on in the same tick.
C28_FirstFeasibleInCostOrder ==
    [][/\ pc' = "evaluate" =>
            /\ idx' \in 1..Len(candidates')
            /\ \A i, j \in 1..Len(candidates') :
                  i < j => ~Ahead(candidates'[j], candidates'[i])
       /\ (pc = "idle" /\ pc' = "evaluate") => idx' = 1
       /\ (pc = "evaluate" /\ pc' = "evaluate") =>
            /\ candidates' = candidates
            /\ idx' \in {idx, idx + 1}
            /\ action' = NoAction
       /\ Decides =>
            /\ action'.oldNodes = <<candidates[idx].name>>
            /\ canBeTerminated(candidates[idx])
            /\ pc' \in {"cordon", "delete"}
            /\ candidates' = <<>>]_vars
\* a Delete or Replace of a node was decided although an older, equally costly
\* candidate holds a pod that may not be evicted, and a costlier candidate that
\* passes the eviction checks was left alone
C28_Witness ==
    /\ pc \in {"cordon", "delete"}
    /\ action.result \in {"Delete", "Replace"}
    /\ \E m, k \in {c.name : c \in candidateNodes({})} :
          /\ candidateNode(m).disruptionCost = candidateNode(oldNode).disruptionCost
          /\ Ahead(candidateNode(m), candidateNode(oldNode))
          /\ ~canBeTerminated(candidateNode(m))
          /\ Ahead(candidateNode(oldNode), candidateNode(k))
          /\ canBeTerminated(candidateNode(k))
          /\ ~deletionTimestamp[k]

\* told that the nodes of nominated are nominated, the reconciler lists the
\* candidates and comes out of the sort with them in order f
Yields(nominated, f) ==
    ReconcileWith(nominated) /\ pc' = "evaluate" /\ candidates' = f

Lists(nominated, n) ==
    /\ ReconcileWith(nominated)
    /\ pc' # "idle"
    /\ n \in Range(NodesOf(candidates')) \cup Range(action'.oldNodes)
Eligible(n, nominated) ==
    /\ Present(n)
    /\ meta[n].provisioner \in ProvisionerNames
    /\ meta[n].instanceType \in InstanceTypes
    /\ initialized[n]
    /\ n \notin nominated
    /\ ~MarkedForDeletion[n]
    /\ ~meta[n].doNotConsolidate

\* C30: every node the listing returns as a candidate, and so every node the
\* reconciler goes on with, has the label of a provisioner that exists, an
\* instance type that provisioner offers, is initialized, is not nominated,
\* is not marked for deletion in the cluster state and is not annotated
\* do-not-consolidate.
C30_CandidatesAreEligible ==
    \A nominated \in NominationSets :
        /\ \A c \in candidateNodes(nominated) : Eligible(c.name, nominated)
        /\ \A n \in NodeIds : (ENABLED Lists(nominated, n)) => Eligible(n, nominated)
\* the single-node phase has started over the candidates while a node annotated
\* do-not-consolidate and a node marked for deletion exist and are not among
\* them
C30_Witness ==
    /\ pc = "evaluate"
    /\ candidates # <<>>
    /\ \E a, b \in NodeIds \ Range(NodesOf(candidates)) :
          /\ Present(a) /\ meta[a].doNotConsolidate /\ initialized[a]
          /\ Present(b) /\ MarkedForDeletion[b] /\ ~meta[b].doNotConsolidate

\* C31: whenever the reconciler is about to simulate the scheduling of a
\* candidate's pods, none of the nodes it hands to the scheduler as places
\* for them is marked for deletion; so a Delete, which needs every pod of
\* the candidate placed on those nodes, is decided only when a node that is
\* not marked for deletion exists beside the candidate.
C31_NoPodSimulatedOntoMarkedNode ==
    [][pc = "evaluate" =>
          /\ \A m \in stateNodes(candidates[idx].name) :
                Present(m) /\ ~MarkedForDeletion[m]
          /\ (Decides /\ action'.result = "Delete") =>
                \E m \in NodeIds \ {candidates[idx].name} :
                    Present(m) /\ ~MarkedForDeletion[m]]_vars
\* a Replace was decided for a node whose only neighbour is marked for
\* deletion: the simulation had no node to place pods on
C31_Witness ==
    /\ pc = "cordon"
    /\ action.result = "Replace"
    /\ stateNodes(oldNode) = {}
    /\ \E m \in NodeIds \ {oldNode} : Present(m) /\ MarkedForDeletion[m]

\* C32: a node that exists is unmarked for deletion only while no delete
\* request has been issued for it: one that has a deletion timestamp, or whose
\* deletion the reconciler requested, stays marked.
C32_UnmarkOnlyBeforeDelete ==
    [][\A n \in NodeIds :
          (Present(n) /\ MarkedForDeletion[n] /\ Present(n)' /\ ~MarkedForDeletion'[n]) =>
              (~deletionTimestamp[n] /\ deletionWait[n] = "none")]_vars

\* a tick that evaluates the candidates: it goes on to an action or to the
\* single-node phase, or it finds no candidate and records the state it saw
EvaluatesCandidates ==
    Reconcile /\ (pc' # "idle" \/ lastConsolidationState' # lastConsolidationState)
InStabilizationWindow == stabilizationWindow(quiet) # 0 /\ recentScale
EndsWithNothingToDo ==
    \/ pc = "idle" /\ pc' = "idle" /\ \E nominated \in NominationSets : candidateNodes(nominated) = {}
    \/ pc = "evaluate" /\ pc' = "idle" /\ idx = Len(candidates) /\ action' = NoAction

\* C33: an idle reconciler's tick evaluates the candidates exactly when the
\* state of the cluster differs from the one it holds as seen by the last
\* evaluation, and no stabilization window is open; it comes to hold the
\* current state as seen only by an evaluation that ends with nothing to do,
\* never when an action was performed or attempted; and every change of
\* the cluster that bears on consolidation makes the two differ.
C33_SkipsOnlyUnchangedFruitlessState ==
    /\ [](pc = "idle" =>
            ((ENABLED EvaluatesCandidates) <=>
                (lastConsolidationState # ClusterConsolidationState
                    /\ ~InStabilizationWindow)))
    /\ [][(lastConsolidationState # ClusterConsolidationState
              /\ lastConsolidationState' = ClusterConsolidationState) =>
                EndsWithNothingToDo]_vars
    /\ [][(pc \in {"cordon", "launch", "waitReady", "delete", "waitDeletion"}
              /\ pc' = "idle") =>
                lastConsolidationState' # ClusterConsolidationState]_vars
    /\ [][(deletionTimestamp' # deletionTimestamp \/ phase' # phase) =>
                lastConsolidationState' # ClusterConsolidationState]_vars
\* the reconciler is idle, holds the current state of the cluster as seen by
\* an evaluation that took no action, and candidates exist: its tick skips
\* them
C33_Witness ==
    /\ pc = "idle"
    /\ lastConsolidationState = ClusterConsolidationState
    /\ candidateNodes({}) # {}
    /\ ~InStabilizationWindow

\* C34: a tick that has started comes to its end, whether or not the
\* replacement ever reports initialized and whether or not the deleted node
\* ever goes away: each of the two waits ends at its last attempt at the
\* latest.
C34_TickTerminates == (pc # "idle") ~> (pc = "idle")
\* the tick is over although a node whose deletion it requested still exists:
\* the wait for its disappearance gave up
C34_Witness ==
    /\ pc = "idle"
    /\ \E n \in NodeIds : Present(n) /\ deletionTimestamp[n] /\ deletionWait[n] = "abandoned"


\* ------------------------------------------------ order of the evictions
\* a reconcile of node n that takes the pods in late for stuck puts pod p
\* into the eviction queue
EnqueuesPod(n, late, p) ==
    /\ TerminationReconcileWith(n, late)
    /\ eviction[n][p] = "none"
    /\ eviction'[n][p] = "queued"
NonCritical(q) == Evictable(q) /\ ~IsCritical(q)

Removes(n, late) == TerminationReconcileWith(n, late) /\ phase'[n] = "gone"

\* C36: on a draining node whose instance exists, a reconcile does not remove
\* the node while an evictable pod is terminating within its grace period,
\* and it removes the node when every pod that is not succeeded or failed is
\* terminating and has outlived its grace period.
C36_StuckTerminatingPodsDoNotBlock ==
    \A n \in NodeIds :
        (Deleting(n) /\ instance[n] # "gone" /\ ~graceExpired(n)) =>
            \A late \in SUBSET terminatingPods(n) :
                /\ (\E p \in terminatingPods(n) \ late : Evictable(p)) =>
                        ~ENABLED Removes(n, late)
                /\ (\A p \in pods[n] : IsTerminal(p) \/ p \in late) =>
                        ENABLED Removes(n, late)
C36_Witness ==
    \E n \in NodeIds, p \in PodKinds :
        /\ Deleting(n) /\ unschedulable[n] /\ instance[n] = "running"
        /\ p \in pods[n] /\ Evictable(p) /\ eviction[n][p] = "evicting"
        /\ ~ENABLED Removes(n, {})
        /\ ENABLED Removes(n, {p})

\* ------------------------------------------------ the ConfigMap watcher
\* the handlers registered through OnChange on the watcher NewChangeWatcher
\* returned
Registered == {watchers[NewChangeWatcher][i] : i \in DOMAIN watchers[NewChangeWatcher]}
Notified(cm) == {invoked[i].handler : i \in {j \in DOMAIN invoked : invoked[j].cm = cm}}

\* C37: when the informer reports a ConfigMap whose hash differs from the
\* last one seen, every handler registered through OnChange is called with
\* it; when the hash is the same, no handler is called.
C37_HandlersNotifiedOfChanges ==
    [][\A data \in WatchedData :
          configMapChanged(data) =>
              IF hashCM(data) # configHash["cw"]
              THEN Registered \subseteq Notified(ConfigMap(data))'
              ELSE invoked' = <<>>]_vars

\* ------------------------------------------------ capacity errors
\* the fleet answers the call without an instance and with an error that
\* says an offering cannot be fulfilled
CapacityFailure(out) ==
    /\ out.err = NoError
    /\ ~out.launched
    /\ \E e \in out.errors : isUnfulfillableCapacity(e)

\* C38: a launch that fails with a capacity error about an offering leaves
\* that offering in the cache of unavailable offerings and ends Create with
\* an error, without another launch; and Create launches again only after a
\* launch failed because a launch template of the request does not exist.
C38_CapacityErrorCachedNotRetried ==
    /\ [][\A out \in createFleetAnswers :
             (CapacityFailure(out) /\ CreateFleetWith(out)) =>
                 /\ \A e \in out.errors :
                        isUnfulfillableCapacity(e) => e.offering \in unavailableOfferings'
                 /\ createPc' = "idle"
                 /\ createResult' = FleetErrors
                 /\ launches' = launches]_vars
    /\ [][(createPc # "retry" /\ createPc' = "retry") => FleetFailsNotFound]_vars
C38_Witness ==
    /\ createPc = "idle"
    /\ createResult = FleetErrors
    /\ launches = 1
    /\ unavailableOfferings # {}

\* ------------------------------------------------ drift
\* the image of the machine is among the AMIs resolved for its instance type
ImageResolved == MachineImageID \in MapInstanceTypes(amis, MachineInstanceType)
\* the Provisioner with other values in its behavioral fields
WithBehavior(p, weight, limits, consolidation) ==
    [p EXCEPT !.weight = weight, !.limits = limits, !.consolidation = consolidation]

\* C39: a drift check of a machine whose image is among the AMIs resolved
\* for its instance type answers that the machine is not drifted, whatever
\* the weight, the limits and the consolidation settings of the Provisioner
\* are; and no value of those fields changes the answer of a drift check.
C39_BehavioralFieldsNeverDrift ==
    /\ [][\A getErr \in BOOLEAN :
             (CheckDrift(getErr) /\ ImageResolved) => ~drifted'.drifted]_vars
    /\ [](\A getErr \in BOOLEAN :
            \A weight \in Weights, limits \in Limits, consolidation \in BOOLEAN :
                IsMachineDrifted(WithBehavior(machineProvisioner, weight, limits, consolidation),
                                 instanceTypes, nodeTemplate, amis, getErr)
                = IsMachineDrifted(machineProvisioner, instanceTypes, nodeTemplate, amis, getErr))
C39_Witness ==
    /\ drifted.called /\ ~drifted.drifted /\ ~drifted.err
    /\ machineProvisioner.exists /\ machineProvisioner.providerRef /\ nodeTemplate = "amiFamily"
    /\ machineProvisioner.weight # 0 /\ machineProvisioner.limits # "none" /\ machineProvisioner.consolidation
    /\ ImageResolved
    /\ MachineInstanceType \in instanceTypes

\* ------------------------------------------------ the eviction hook
\* the eviction hook, called for the key, deletes its launch template in EC2
HookDeletes(key) == onCacheEvicted(key) /\ key \in ltCloud /\ key \notin ltCloud'

\* C40 as stated: the eviction hook deletes a launch template only when its
\* entry has expired and the key has not been cached again with an entry
\* that is not expired, and never one that was invalidated.
C40_HookDeletesOnlyExpired ==
    [][\A key \in CacheKeys :
          HookDeletes(key) =>
              /\ key \in ltEvicted
              /\ key \notin Unexpired
              /\ ltSince[key] = "none"]_vars
\* C40 amended: the eviction hook deletes a launch template only when its
\* entry has expired and, when the hook runs, the cache holds no entry of the
\* key that is not expired; an Invalidate calls no hook; and only entries
\* that are expired are evicted.
C40_HookDeletesOnlyExpiredNotCachedNow ==
    /\ [][\A key \in CacheKeys :
             HookDeletes(key) => key \in ltEvicted /\ key \notin Unexpired]_vars
    /\ [][\A key \in CacheKeys :
             (key \notin ltEvicted /\ key \in ltEvicted') =>
                 /\ key \in ltExpired
                 /\ ~FleetAnswered]_vars
    /\ [][FleetAnswered => ltEvicted' = ltEvicted /\ ltCloud' = ltCloud]_vars
C40_Witness ==
    \E key \in LaunchTemplateNames :
        /\ key \in ltEvicted
        /\ key \in Unexpired
        /\ key \in ltCloud
        /\ ltSince[key] = "cached"
====
